---- MODULE Spec2Model ----
(***************************************************************************)
(* TechNova Partners: turnover-prediction service.                         *)
(*                                                                         *)
(* The module models                                                       *)
(*   - service/technova_service.py : TechNovaService (feature contract,    *)
(*     fetch_latest_clean_row, _row_to_X, adapt_input, predict_from_clean, *)
(*     predict_from_payload),                                              *)
(*   - app/api.py : the two prediction handlers and their audit writes,    *)
(*   - app/database.py : get_db (one session per request, closed at end),  *)
(*   - dashboard/feature_schema.py and domain/domain.py : the other two    *)
(*     declarations of the feature list,                                   *)
(*   - scripts/seed_ml_features.py : the insert into the feature store.    *)
(*                                                                         *)
(* Probabilities and the threshold are floats in the code; here they are   *)
(* points k / ProbaMax of a grid, k in 0..ProbaMax, compared as the code   *)
(* compares the floats.                                                    *)
(***************************************************************************)
EXTENDS Integers, Sequences, FiniteSets, TLC

VARIABLES
    feature_columns,      \* TechNovaService.feature_columns
    threshold,            \* TechNovaService.threshold
    model,                \* TechNovaService.model, the loaded pipeline
    clean,                \* rows of clean.ml_features_employees
    clean_seq,            \* last value of the table's BIGSERIAL id
    prediction_requests,  \* committed rows of app.prediction_requests
    predictions,          \* committed rows of app.predictions
    req_seq,              \* last id given to a PredictionRequest
    pred_seq,             \* last id given to a Prediction
    calls,                \* the request handlers in flight, one per call
    unit                  \* last direct call of a service method (unit level)

vars == <<feature_columns, threshold, model, clean, clean_seq,
          prediction_requests, predictions, req_seq, pred_seq, calls, unit>>

----------------------------------------------------------------------------
(* Bounds of the model *)

MaxRows == 2

ProbaMax == 1

EmployeeIds == {1, 2}

Times == {1, 2}

Calls == {1, 2}

Probas == 0..ProbaMax

----------------------------------------------------------------------------
(* Sequence helpers *)

Range(s) == {s[i] : i \in 1..Len(s)}

NoDuplicates(s) == Cardinality(Range(s)) = Len(s)

IndexOf(s, x) == CHOOSE i \in 1..Len(s) : s[i] = x

\* Every arrangement of the members of a finite set S as a sequence.
RECURSIVE Perms(_)
Perms(S) ==
    IF S = {} THEN {<<>>}
    ELSE UNION {{Append(p, x) : p \in Perms(S \ {x})} : x \in S}

----------------------------------------------------------------------------
(* The three declarations of the feature list *)

\* dashboard.feature_schema: [f.key for f in FEATURES]
MODEL_FEATURE_ORDER ==
    << "note_evaluation_precedente", "note_evaluation_actuelle",
       "niveau_hierarchique_poste", "heures_supplementaires",
       "augmentation_salaire_precedente", "age", "genre", "revenu_mensuel",
       "statut_marital", "niveau_education", "domaine_etude", "departement",
       "poste", "nombre_experiences_precedentes", "annee_experience_totale",
       "annees_dans_l_entreprise", "annees_dans_le_poste_actuel",
       "nombre_participation_pee", "nb_formations_suivies",
       "frequence_deplacement", "annees_depuis_la_derniere_promotion",
       "annees_sous_responsable_actuel", "distance_domicile_travail",
       "satisfaction_moyenne", "nonlineaire_participation_pee",
       "ratio_heures_sup_salaire", "nonlinaire_charge_contrainte",
       "nonlinaire_surmenage_insatisfaction", "jeune_surcharge",
       "anciennete_sans_promotion", "mobilite_carriere", "risque_global" >>

\* a mutant of ServiceFeatureColumns: the first name is left out
ServiceFeatureColumnsShort == Tail(MODEL_FEATURE_ORDER)

\* TechNovaService.__init__: self.feature_columns
ServiceFeatureColumns ==
    << "note_evaluation_precedente", "niveau_hierarchique_poste",
       "note_evaluation_actuelle", "heures_supplementaires",
       "augmentation_salaire_precedente", "age", "genre", "revenu_mensuel",
       "statut_marital", "departement", "poste",
       "nombre_experiences_precedentes", "annee_experience_totale",
       "annees_dans_l_entreprise", "annees_dans_le_poste_actuel",
       "nombre_participation_pee", "nb_formations_suivies",
       "distance_domicile_travail", "niveau_education", "domaine_etude",
       "frequence_deplacement", "annees_depuis_la_derniere_promotion",
       "annees_sous_responsable_actuel", "satisfaction_moyenne",
       "nonlineaire_participation_pee", "ratio_heures_sup_salaire",
       "nonlinaire_charge_contrainte", "nonlinaire_surmenage_insatisfaction",
       "jeune_surcharge", "anciennete_sans_promotion", "mobilite_carriere",
       "risque_global" >>

\* a mutant of ModelRequestFields: the schema also declares employee_id
ModelRequestFieldsWithId == <<"employee_id">> \o ServiceFeatureColumns

\* domain.ModelRequest: the fields, in declaration order (model_dump's order)
ModelRequestFields ==
    << "note_evaluation_precedente", "niveau_hierarchique_poste",
       "note_evaluation_actuelle", "heures_supplementaires",
       "augmentation_salaire_precedente", "age", "genre", "revenu_mensuel",
       "statut_marital", "departement", "poste",
       "nombre_experiences_precedentes", "annee_experience_totale",
       "annees_dans_l_entreprise", "annees_dans_le_poste_actuel",
       "nombre_participation_pee", "nb_formations_suivies",
       "distance_domicile_travail", "niveau_education", "domaine_etude",
       "frequence_deplacement", "annees_depuis_la_derniere_promotion",
       "annees_sous_responsable_actuel", "satisfaction_moyenne",
       "nonlineaire_participation_pee", "ratio_heures_sup_salaire",
       "nonlinaire_charge_contrainte", "nonlinaire_surmenage_insatisfaction",
       "jeune_surcharge", "anciennete_sans_promotion", "mobilite_carriere",
       "risque_global" >>

\* api.MODEL_VERSION
MODEL_VERSION == "xgb_v1"

----------------------------------------------------------------------------
(* Mappings (dict, DataFrame row): a sequence of <<key, value>> pairs with   *)
(* distinct keys, in insertion order.                                      *)

Columns(m) == [i \in 1..Len(m) |-> m[i][1]]

Has(m, k) == \E i \in 1..Len(m) : m[i][1] = k

Get(m, k) == m[CHOOSE i \in 1..Len(m) : m[i][1] = k][2]

NoResult == [kind |-> "none"]

\* A result that is an exception
Raise(exc, msg, names) ==
    [kind |-> "raise", exc |-> exc, msg |-> msg, names |-> names]

\* X[self.feature_columns]: the values in contract order
Project(fc, m) ==
    [kind |-> "ok", columns |-> fc, values |-> [i \in 1..Len(fc) |-> Get(m, fc[i])]]

----------------------------------------------------------------------------
(* TechNovaService: the pure parts *)

\* a mutant of MissingFeatures: only the first absent feature is reported
MissingFeaturesFirstOnly(fc, cols) ==
    LET present == Range(cols)
        all     == SelectSeq(fc, LAMBDA c : c \notin present)
    IN  IF all = <<>> THEN <<>> ELSE <<Head(all)>>

\* missing = [c for c in self.feature_columns if c not in X.columns]
MissingFeatures(fc, cols) ==
    LET present == Range(cols)
    IN  SelectSeq(fc, LAMBDA c : c \notin present)

\* a mutant of ExtraFeatures: the check for unexpected keys is skipped
ExtraFeaturesIgnored(fc, cols) == <<>>

\* extra = [c for c in X.columns if c not in self.feature_columns]
ExtraFeatures(fc, cols) ==
    LET expected == Range(fc)
    IN  SelectSeq(cols, LAMBDA c : c \notin expected)

\* a mutant of adapt_input: the unexpected keys are checked first
adapt_input_extra_first(fc, payload) ==
    LET cols    == Columns(payload)
        missing == MissingFeatures(fc, cols)
        extra   == ExtraFeatures(fc, cols)
    IN  IF extra # <<>>
           THEN Raise("ValueError", "Unexpected features", extra)
        ELSE IF missing # <<>>
           THEN Raise("ValueError", "Missing features", missing)
        ELSE Project(fc, payload)

\* TechNovaService.adapt_input on request.model_dump() = payload
adapt_input(fc, payload) ==
    LET cols    == Columns(payload)
        missing == MissingFeatures(fc, cols)
        extra   == ExtraFeatures(fc, cols)
    IN  IF missing # <<>>
           THEN Raise("ValueError", "Missing features", missing)
        ELSE IF extra # <<>>
           THEN Raise("ValueError", "Unexpected features", extra)
        ELSE Project(fc, payload)

\* a mutant of row_to_X: only the first missing feature is named
row_to_X_first_missing(fc, row) ==
    LET present == Range(Columns(row))
        missing == SelectSeq(fc, LAMBDA c : c \notin present)
    IN  IF missing # <<>>
           THEN Raise("ValueError", "Clean row missing required features",
                      <<Head(missing)>>)
        ELSE Project(fc, row)

\* a mutant of row_to_X: the columns are left in the row's key order
row_to_X_row_order(fc, row) ==
    LET present == Range(Columns(row))
        missing == SelectSeq(fc, LAMBDA c : c \notin present)
        kept    == SelectSeq(row, LAMBDA kv : kv[1] \in Range(fc))
    IN  IF missing # <<>>
           THEN Raise("ValueError", "Clean row missing required features", missing)
        ELSE [kind |-> "ok", columns |-> Columns(kept),
              values |-> [i \in 1..Len(kept) |-> kept[i][2]]]

\* TechNovaService._row_to_X
row_to_X(fc, row) ==
    LET present == Range(Columns(row))
        missing == SelectSeq(fc, LAMBDA c : c \notin present)
    IN  IF missing # <<>>
           THEN Raise("ValueError", "Clean row missing required features", missing)
        ELSE Project(fc, row)

----------------------------------------------------------------------------
(* The classifier (self.model, a loaded artifact): for one call it either   *)
(* returns a probability of the positive class or raises.                  *)

ClassifierProba(p) == [kind |-> "proba", p |-> p, exc |-> "none"]

ClassifierRaises(exc) == [kind |-> "raise", p |-> 0, exc |-> exc]

ClassifierOutcomes ==
    {ClassifierProba(p) : p \in Probas}
        \cup {ClassifierRaises(exc) : exc \in {"ValueError", "Exception"}}

\* ModelResponse
ModelResponse(employee_id, proba, will_leave) ==
    [kind |-> "ok", employee_id |-> employee_id,
     turnover_probability |-> proba, will_leave |-> will_leave]

\* a mutant of will_leave_clean: the boundary is exclusive
will_leave_clean_strict(proba, thr) == proba > thr

\* predict_from_clean: will_leave=proba >= self.threshold
will_leave_clean(proba, thr) == proba >= thr

\* predict_from_payload: will_leave=proba >= self.threshold
will_leave_payload(proba, thr) == proba >= thr

\* a mutant of RowMapping: the SELECT list leaves out the first name
RowMappingShort(fc, r) ==
    LET keys == SelectSeq(Tail(fc), LAMBDA c : c \notin r.lacks)
    IN  [i \in 1..Len(keys) |-> <<keys[i], r.id>>]

\* A stored row as the mapping the session yields for it: the keys of the
\* SELECT list that the row is returned with, every value tagged with the
\* row it comes from.
RowMapping(fc, r) ==
    LET keys == SelectSeq(fc, LAMBDA c : c \notin r.lacks)
    IN  [i \in 1..Len(keys) |-> <<keys[i], r.id>>]

\* a mutant of LatestRows: ORDER BY created_at ASC
OldestRows(store, employee_id) ==
    {r \in store :
        /\ r.employee_id = employee_id
        /\ \A q \in store :
              q.employee_id = employee_id => q.created_at >= r.created_at}

\* WHERE employee_id = :employee_id ORDER BY created_at DESC LIMIT 1:
\* the rows the query may return (several when created_at ties).
LatestRows(store, employee_id) ==
    {r \in store :
        /\ r.employee_id = employee_id
        /\ \A q \in store :
              q.employee_id = employee_id => q.created_at <= r.created_at}

NoRow == [kind |-> "none", id |-> 0, mapping |-> <<>>]

Fetched(fc, r) == [kind |-> "row", id |-> r.id, mapping |-> RowMapping(fc, r)]

\* TechNovaService.fetch_latest_clean_row: the possible results
fetch_latest_clean_row(fc, store, employee_id) ==
    IF LatestRows(store, employee_id) = {}
       THEN {NoRow}
       ELSE {Fetched(fc, r) : r \in LatestRows(store, employee_id)}

\* What a predict_* call yields: the response or the exception, the step
\* that failed, whether the classifier was invoked and, if so, the number
\* of entries of the vector it was handed.
Outcome(res, failure, invoked, X) ==
    [res |-> res, failure |-> failure, invoked |-> invoked,
     width |-> IF invoked THEN Len(X.values) ELSE 0]

\* predict_from_clean from `X = self._row_to_X(row)` on: X is what
\* _row_to_X gave
predict_from_clean_X(X, thr, employee_id, clf) ==
    IF X.kind = "raise" THEN Outcome(X, "row_validation", FALSE, X)
    ELSE IF clf.kind = "raise"
       THEN Outcome(Raise(clf.exc, "predict_proba", <<>>), "classifier", TRUE, X)
    ELSE Outcome(ModelResponse(employee_id, clf.p, will_leave_clean(clf.p, thr)),
                 "none", TRUE, X)

\* TechNovaService.predict_from_clean, given the row the query returned
predict_from_clean(fc, thr, row, employee_id, clf) ==
    IF row.kind = "none"
       THEN Outcome(Raise("ValueError", "Aucune ligne dans clean.ml_features_employees", <<>>),
                    "not_found", FALSE, NoResult)
       ELSE predict_from_clean_X(row_to_X(fc, row.mapping), thr, employee_id, clf)

\* predict_from_payload from `X = self.adapt_input(request)` on: X is what
\* adapt_input gave
predict_from_payload_X(X, thr, clf) ==
    IF X.kind = "raise" THEN Outcome(X, "payload_validation", FALSE, X)
    ELSE IF clf.kind = "raise"
       THEN Outcome(Raise(clf.exc, "predict_proba", <<>>), "classifier", TRUE, X)
    ELSE Outcome(ModelResponse(0, clf.p, will_leave_payload(clf.p, thr)),
                 "none", TRUE, X)

\* TechNovaService.predict_from_payload
predict_from_payload(fc, thr, payload, clf) ==
    predict_from_payload_X(adapt_input(fc, payload), thr, clf)

----------------------------------------------------------------------------
(* The feature store and its producer *)

\* seed_ml_features.DEST_COLS
DEST_COLS ==
    << "employee_id", "note_evaluation_precedente", "niveau_hierarchique_poste",
       "note_evaluation_actuelle", "heures_supplementaires",
       "augmentation_salaire_precedente", "age", "genre", "revenu_mensuel",
       "statut_marital", "departement", "poste",
       "nombre_experiences_precedentes", "annee_experience_totale",
       "annees_dans_l_entreprise", "annees_dans_le_poste_actuel",
       "a_quitte_l_entreprise", "nombre_participation_pee",
       "nb_formations_suivies", "distance_domicile_travail",
       "niveau_education", "domaine_etude", "frequence_deplacement",
       "annees_depuis_la_derniere_promotion", "annees_sous_responsable_actuel",
       "satisfaction_moyenne", "nonlineaire_participation_pee",
       "ratio_heures_sup_salaire", "nonlinaire_charge_contrainte",
       "nonlinaire_surmenage_insatisfaction", "jeune_surcharge",
       "anciennete_sans_promotion", "mobilite_carriere", "risque_global" >>

\* models.MLFeaturesEmployee. lacks: the names of the SELECT list of
\* _sql_clean_latest that the row does not come back with; a row the insert
\* wrote lacks the names that are no column of DEST_COLS.
\* nulls: the columns of the row that hold NULL.
CleanRow(id, employee_id, created_at, lacks) ==
    [id |-> id, employee_id |-> employee_id, created_at |-> created_at,
     lacks |-> lacks, nulls |-> {}]

NotWritten(fc) == Range(fc) \ Range(DEST_COLS)

\* The position of employee e among the employees of a batch (the order of
\* the rows of the master frame).
Rank(batch, e) == Cardinality({x \in batch : x <= e})

\* seed_ml_features.insert_destination: one transaction appends one row per
\* employee of the batch; created_at is the column's DEFAULT now(), the same
\* for the whole transaction.
insert_destination(batch, t) ==
    /\ Cardinality(clean) + Cardinality(batch) <= MaxRows
    /\ clean' = clean \cup
           {CleanRow(clean_seq + Rank(batch, e), e, t, NotWritten(feature_columns))
               : e \in batch}
    /\ clean_seq' = clean_seq + Cardinality(batch)
    /\ UNCHANGED <<feature_columns, threshold, model, prediction_requests,
                   predictions, req_seq, pred_seq, calls, unit>>

----------------------------------------------------------------------------
(* The API handlers.  A handler runs in three steps, one per round trip to  *)
(* the database: the prediction (one read), db.flush(), db.commit().       *)

IdleCall ==
    [pc |-> "idle", mode |-> "none", employee_id |-> 0, row |-> 0,
     res |-> NoResult, failure |-> "none", invoked |-> FALSE, width |-> 0,
     status |-> 0, txn |-> {}]

\* models.PredictionRequest, as the handlers build it
PredictionRequest(id, c) ==
    [id |-> id, call |-> c, employee_id |-> calls[c].employee_id,
     mode |-> calls[c].mode]

\* a mutant of Prediction: the class is recomputed with a cut at one half
Prediction_half(id, request_id, c) ==
    [id |-> id, call |-> c, request_id |-> request_id,
     model_version |-> MODEL_VERSION,
     predicted_class |->
         IF 2 * calls[c].res.turnover_probability >= ProbaMax THEN 1 ELSE 0,
     predicted_proba |-> calls[c].res.turnover_probability,
     threshold_used |-> threshold]

\* models.Prediction, as the handlers build it
Prediction(id, request_id, c) ==
    [id |-> id, call |-> c, request_id |-> request_id,
     model_version |-> MODEL_VERSION,
     predicted_class |-> IF calls[c].res.will_leave THEN 1 ELSE 0,
     predicted_proba |-> calls[c].res.turnover_probability,
     threshold_used |-> threshold]

\* a mutant of except_by_employee_id: ValueError answered as the payload
\* handler answers it
except_by_employee_id_422(exc) ==
    IF exc = "ValueError" THEN [status |-> 422, rollback |-> TRUE]
                          ELSE [status |-> 500, rollback |-> TRUE]

\* predict_by_employee_id: except ValueError / except Exception
except_by_employee_id(exc) ==
    IF exc = "ValueError" THEN [status |-> 404, rollback |-> TRUE]
                          ELSE [status |-> 500, rollback |-> TRUE]

\* predict_by_features: except ValueError; any other exception leaves the
\* handler uncaught (the server answers 500) with no rollback in the handler
except_by_features(exc) ==
    IF exc = "ValueError" THEN [status |-> 422, rollback |-> TRUE]
                          ELSE [status |-> 500, rollback |-> FALSE]

Except(mode, exc) ==
    IF mode = "by_employee_id" THEN except_by_employee_id(exc)
                               ELSE except_by_features(exc)

\* get_db's finally: db.close() ends the session; its pending transaction is
\* rolled back.  The rows that reach the committed store: none.
close(txn) == {}

\* a mutant of Fails: the request record is written even when the call fails
FailsLoggingRequest(c, mode, employee_id, row, out) ==
    LET h == Except(mode, out.res.exc)
    IN  /\ calls' = [calls EXCEPT ![c] =
               [pc |-> "done", mode |-> mode, employee_id |-> employee_id,
                row |-> row, res |-> out.res, failure |-> out.failure,
                invoked |-> out.invoked, width |-> out.width,
                status |-> h.status, txn |-> {}]]
        /\ prediction_requests' =
               prediction_requests \cup {PredictionRequest(req_seq + 1, c)}

\* The handler ends on the exception out.res, raised by step out.failure:
\* the except clause (db.rollback() where there is one), then get_db's
\* finally.
Fails(c, mode, employee_id, row, out) ==
    LET h     == Except(mode, out.res.exc)
        after == IF h.rollback THEN {} ELSE calls[c].txn
    IN  /\ calls' = [calls EXCEPT ![c] =
               [pc |-> "done", mode |-> mode, employee_id |-> employee_id,
                row |-> row, res |-> out.res, failure |-> out.failure,
                invoked |-> out.invoked, width |-> out.width,
                status |-> h.status, txn |-> {}]]
        /\ prediction_requests' = prediction_requests \cup close(after)

\* The service call returned a response: the handler goes on to the audit.
Predicted(c, mode, employee_id, row, out) ==
    /\ calls' = [calls EXCEPT ![c] =
           [pc |-> "predicted", mode |-> mode, employee_id |-> employee_id,
            row |-> row, res |-> out.res, failure |-> "none",
            invoked |-> out.invoked, width |-> out.width,
            status |-> 0, txn |-> {}]]
    /\ UNCHANGED prediction_requests

\* service/technova_service.py: MODEL_FILE, the pipeline's file
MODEL_FILE == "modele_classification_technova.joblib"

\* joblib.load(model_path): the pipeline object the file holds
joblib_load(path) == [pipeline |-> path]

\* a mutant: a service call recalibrates the threshold it reads
TechNovaServiceRecalibrated ==
    /\ feature_columns' = feature_columns
    /\ model' = model
    /\ threshold' \in Probas

\* fetch_latest_clean_row, _row_to_X, predict_from_clean, adapt_input,
\* predict_from_payload and the two handlers read self.model,
\* self.threshold and self.feature_columns and assign none of them.
TechNovaServiceReadOnly == UNCHANGED <<feature_columns, threshold, model>>

\* Calls are numbered in the order their handlers start.
Started(c) == \A d \in Calls : d < c => calls[d].pc # "idle"

\* The database raises (db.execute, db.flush, db.commit) at step `failure`
\* of call c.
StorageError(c, failure) ==
    [res |-> Raise("Exception", "SQLAlchemyError", <<>>), failure |-> failure,
     invoked |-> calls[c].invoked, width |-> calls[c].width]

\* predict_by_employee_id, first step: service.predict_from_clean
by_employee_id_predict(c) ==
    /\ calls[c].pc = "idle"
    /\ Started(c)
    /\ \E employee_id \in EmployeeIds :
          \/ \E row \in fetch_latest_clean_row(feature_columns, clean, employee_id) :
                IF row.kind = "none"
                   THEN Fails(c, "by_employee_id", employee_id, row.id,
                              predict_from_clean(feature_columns, threshold, row,
                                                 employee_id, ClassifierProba(0)))
                   ELSE LET X == row_to_X(feature_columns, row.mapping)
                        IN  \E clf \in ClassifierOutcomes :
                               LET out == predict_from_clean_X(X, threshold,
                                                               employee_id, clf)
                               IN  IF out.res.kind = "ok"
                                      THEN Predicted(c, "by_employee_id",
                                                     employee_id, row.id, out)
                                      ELSE Fails(c, "by_employee_id",
                                                 employee_id, row.id, out)
          \/ Fails(c, "by_employee_id", employee_id, 0, StorageError(c, "storage"))
    /\ TechNovaServiceReadOnly
    /\ UNCHANGED <<clean, clean_seq, predictions,
                   req_seq, pred_seq, unit>>

\* A ModelRequest as FastAPI hands it to the handler: every field of the
\* schema, in declaration order (the values are tagged with the call).
ModelRequest(c) == [i \in 1..Len(ModelRequestFields) |-> <<ModelRequestFields[i], c>>]

\* predict_by_features, first step: service.predict_from_payload
by_features_predict(c) ==
    /\ calls[c].pc = "idle"
    /\ Started(c)
    /\ LET X == adapt_input(feature_columns, ModelRequest(c))
       IN  \E clf \in ClassifierOutcomes :
              LET out == predict_from_payload_X(X, threshold, clf)
              IN  IF out.res.kind = "ok"
                     THEN Predicted(c, "by_features", 0, 0, out)
                     ELSE Fails(c, "by_features", 0, 0, out)
    /\ TechNovaServiceReadOnly
    /\ UNCHANGED <<clean, clean_seq, predictions,
                   req_seq, pred_seq, unit>>

\* a mutant of flush: the request row is committed as soon as it is flushed
flush_autocommit(c) ==
    /\ calls' = [calls EXCEPT ![c].pc = "flushed",
                              ![c].txn = {PredictionRequest(req_seq + 1, c)}]
    /\ req_seq' = req_seq + 1
    /\ prediction_requests' =
           prediction_requests \cup {PredictionRequest(req_seq + 1, c)}

\* db.add(req); db.flush(): the INSERT runs inside the session's
\* transaction; req.id is set, nothing is committed.
flush(c) ==
    /\ calls' = [calls EXCEPT ![c].pc = "flushed",
                              ![c].txn = {PredictionRequest(req_seq + 1, c)}]
    /\ req_seq' = req_seq + 1
    /\ UNCHANGED prediction_requests

\* Both handlers, second step: the request record is added and flushed, or
\* the flush raises.
audit_flush(c) ==
    /\ calls[c].pc = "predicted"
    /\ \/ flush(c)
       \/ /\ Fails(c, calls[c].mode, calls[c].employee_id, calls[c].row,
                   StorageError(c, "flush"))
          /\ UNCHANGED req_seq
    /\ TechNovaServiceReadOnly
    /\ UNCHANGED <<clean, clean_seq, predictions,
                   pred_seq, unit>>

\* db.add(Prediction(request_id=req.id, ...)); db.commit(): the pending
\* request and the prediction are committed in one transaction.
commit(c) ==
    LET req == CHOOSE r \in calls[c].txn : TRUE
    IN  /\ prediction_requests' = prediction_requests \cup calls[c].txn
        /\ predictions' = predictions \cup {Prediction(pred_seq + 1, req.id, c)}
        /\ pred_seq' = pred_seq + 1
        /\ calls' = [calls EXCEPT ![c].pc = "done", ![c].status = 200,
                                  ![c].txn = {}]

\* Both handlers, third step: the outcome record is added and the
\* transaction committed (the response is returned), or building the record
\* or the commit raises.
audit_commit(c) ==
    /\ calls[c].pc = "flushed"
    /\ \/ commit(c)
       \/ /\ Fails(c, calls[c].mode, calls[c].employee_id, calls[c].row,
                   StorageError(c, "commit"))
          /\ UNCHANGED <<predictions, pred_seq>>
    /\ TechNovaServiceReadOnly
    /\ UNCHANGED <<clean, clean_seq, req_seq, unit>>

----------------------------------------------------------------------------
(* The service as a running application *)

UnitIdle == [op |-> "none"]

\* TechNovaService.__init__ (the threshold is whatever threshold.json holds)
Init ==
    /\ feature_columns = ServiceFeatureColumns
    /\ threshold \in Probas
    /\ model = joblib_load(MODEL_FILE)
    /\ clean = {}
    /\ clean_seq = 0
    /\ prediction_requests = {}
    /\ predictions = {}
    /\ req_seq = 0
    /\ pred_seq = 0
    /\ calls = [c \in Calls |-> IdleCall]
    /\ unit = UnitIdle

Next ==
    \/ \E batch \in (SUBSET EmployeeIds) \ {{}}, t \in Times :
          insert_destination(batch, t)
    \/ \E c \in Calls : by_employee_id_predict(c)
    \/ \E c \in Calls : by_features_predict(c)
    \/ \E c \in Calls : audit_flush(c)
    \/ \E c \in Calls : audit_commit(c)

Spec == Init /\ [][Next]_vars

----------------------------------------------------------------------------
(* The handlers over an injected session (app.dependency_overrides[get_db],  *)
(* as tests/conftest.py installs it): the mapping the session yields for a *)
(* row need not carry every name of the contract, the case _row_to_X       *)
(* checks for.                                                             *)

DoubleStores ==
    {{CleanRow(1, e, t, {feature}) } :
        e \in EmployeeIds, t \in {1}, feature \in {ServiceFeatureColumns[1]}}

InitDouble ==
    /\ feature_columns = ServiceFeatureColumns
    /\ threshold \in Probas
    /\ model = joblib_load(MODEL_FILE)
    /\ clean \in DoubleStores
    /\ clean_seq = 1
    /\ prediction_requests = {}
    /\ predictions = {}
    /\ req_seq = 0
    /\ pred_seq = 0
    /\ calls = [c \in Calls |-> IdleCall]
    /\ unit = UnitIdle

SpecDouble == InitDouble /\ [][Next]_vars

----------------------------------------------------------------------------
(* The service methods called directly, on a service built with a chosen   *)
(* contract, threshold and classifier (tests/test_technova_service.py:     *)
(* make_service, FakeRequest, FakeModel, FakeDBNoRow).                     *)

UnitKeys == {"age", "revenu_mensuel", "foo"}

UnitValues == {0, 1}

UnitContracts ==
    { <<"age">>, <<"age", "revenu_mensuel">>, <<"revenu_mensuel", "age">> }

\* Every mapping over UnitKeys: the keys in any order, any values.
UnitMappings ==
    UNION {
        UNION { {[i \in 1..Len(ks) |-> <<ks[i], v[i]>>] : v \in [1..Len(ks) -> UnitValues]}
                : ks \in Perms(K) }
        : K \in SUBSET UnitKeys }

\* s.adapt_input(FakeRequest(payload))
call_adapt_input ==
    /\ unit.op = "none"
    /\ \E payload \in UnitMappings :
          unit' = [op |-> "adapt_input", arg |-> payload,
                   out |-> adapt_input(feature_columns, payload)]
    /\ TechNovaServiceReadOnly
    /\ UNCHANGED <<clean, clean_seq,
                   prediction_requests, predictions, req_seq, pred_seq, calls>>

\* s._row_to_X(row)
call_row_to_X ==
    /\ unit.op = "none"
    /\ \E row \in UnitMappings :
          unit' = [op |-> "_row_to_X", arg |-> row,
                   out |-> row_to_X(feature_columns, row)]
    /\ TechNovaServiceReadOnly
    /\ UNCHANGED <<clean, clean_seq,
                   prediction_requests, predictions, req_seq, pred_seq, calls>>

\* s.predict_from_payload(FakeRequest(payload))
call_predict_from_payload ==
    /\ unit.op = "none"
    /\ \E payload \in UnitMappings, clf \in ClassifierOutcomes :
          unit' = [op |-> "predict_from_payload", arg |-> payload, clf |-> clf,
                   out |-> predict_from_payload(feature_columns, threshold,
                                                payload, clf)]
    /\ TechNovaServiceReadOnly
    /\ UNCHANGED <<clean, clean_seq,
                   prediction_requests, predictions, req_seq, pred_seq, calls>>

\* s.predict_from_clean(db, employee_id), db yielding no row or one mapping
call_predict_from_clean ==
    /\ unit.op = "none"
    /\ \E row \in {NoRow} \cup {[kind |-> "row", id |-> 1, mapping |-> m] : m \in UnitMappings},
          employee_id \in EmployeeIds, clf \in ClassifierOutcomes :
          unit' = [op |-> "predict_from_clean", arg |-> row.mapping,
                   found |-> row.kind = "row", employee_id |-> employee_id,
                   clf |-> clf,
                   out |-> predict_from_clean(feature_columns, threshold, row,
                                              employee_id, clf)]
    /\ TechNovaServiceReadOnly
    /\ UNCHANGED <<clean, clean_seq,
                   prediction_requests, predictions, req_seq, pred_seq, calls>>

InitUnit ==
    /\ feature_columns \in UnitContracts
    /\ threshold \in Probas
    /\ model = joblib_load(MODEL_FILE)
    /\ clean = {}
    /\ clean_seq = 0
    /\ prediction_requests = {}
    /\ predictions = {}
    /\ req_seq = 0
    /\ pred_seq = 0
    /\ calls = [c \in Calls |-> IdleCall]
    /\ unit = UnitIdle

NextUnit ==
    \/ call_adapt_input
    \/ call_row_to_X
    \/ call_predict_from_payload
    \/ call_predict_from_clean

SpecUnit == InitUnit /\ [][NextUnit]_vars

----------------------------------------------------------------------------
(* Properties *)

\* The names of the contract that are no key of mapping m
Absent(fc, m) == {c \in Range(fc) : ~Has(m, c)}

\* The keys of mapping m that are no name of the contract
Beyond(fc, m) == {k \in Range(Columns(m)) : k \notin Range(fc)}

\* names lists exactly the members of S, each once, in the order of fc
ListsInOrderOf(names, S, fc) ==
    /\ Range(names) = S
    /\ Len(names) = Cardinality(S)
    /\ \A i, j \in 1..Len(names) :
          i < j => IndexOf(fc, names[i]) < IndexOf(fc, names[j])

\* C1: whenever a contract feature is absent from the payload, adapt_input
\* raises the validation error 'Missing features' and the names it lists
\* are exactly the absent contract features, in contract order.
C1_MissingFeatures ==
    (unit.op = "adapt_input" /\ Absent(feature_columns, unit.arg) # {}) =>
        /\ unit.out.kind = "raise"
        /\ unit.out.exc = "ValueError"
        /\ unit.out.msg = "Missing features"
        /\ ListsInOrderOf(unit.out.names, Absent(feature_columns, unit.arg),
                          feature_columns)

\* C1, its case: adapt_input was given a payload with a key, lacking both
\* features of a two-feature contract, and named the two.
C1_Witness ==
    /\ unit.op = "adapt_input"
    /\ unit.arg # <<>>
    /\ Cardinality(Absent(feature_columns, unit.arg)) = 2
    /\ unit.out.kind = "raise"
    /\ Len(unit.out.names) = 2

\* C2: a payload with every contract feature and at least one key outside
\* the contract makes adapt_input raise 'Unexpected features' naming
\* exactly the extra keys; a vector is returned only when the payload's key
\* set is the contract set.
C2_UnexpectedFeatures ==
    unit.op = "adapt_input" =>
        /\ (Absent(feature_columns, unit.arg) = {}
               /\ Beyond(feature_columns, unit.arg) # {}) =>
              /\ unit.out.kind = "raise"
              /\ unit.out.exc = "ValueError"
              /\ unit.out.msg = "Unexpected features"
              /\ Range(unit.out.names) = Beyond(feature_columns, unit.arg)
              /\ Len(unit.out.names) = Cardinality(Beyond(feature_columns, unit.arg))
        /\ unit.out.kind = "ok" =>
              Range(Columns(unit.arg)) = Range(feature_columns)

\* C2, its case: a complete payload with one extra key was refused.
C2_Witness ==
    /\ unit.op = "adapt_input"
    /\ Len(feature_columns) = 2
    /\ Absent(feature_columns, unit.arg) = {}
    /\ Beyond(feature_columns, unit.arg) = {"foo"}
    /\ unit.out.kind = "raise"
    /\ unit.out.names = <<"foo">>

Ok(c) == calls[c].res.kind = "ok"

\* C3: in both predict_from_clean and predict_from_payload the decision is
\* exactly probability >= threshold, inclusive at the boundary.
C3_DecisionRule ==
    \A c \in Calls :
        Ok(c) => (calls[c].res.will_leave
                     <=> calls[c].res.turnover_probability >= threshold)

\* C3, its case: on each of the two paths a probability equal to the
\* threshold was decided positive.
C3_Witness ==
    \E c, d \in Calls :
        /\ calls[c].mode = "by_employee_id" /\ Ok(c)
        /\ calls[c].res.turnover_probability = threshold
        /\ calls[c].res.will_leave
        /\ calls[d].mode = "by_features" /\ Ok(d)
        /\ calls[d].res.turnover_probability = threshold
        /\ calls[d].res.will_leave

\* Call c takes the first step of predict_by_employee_id and the query runs.
Resolves(c) ==
    /\ calls[c].pc = "idle"
    /\ calls'[c].mode = "by_employee_id"
    /\ calls'[c].failure # "storage"

RowsOf(employee_id) == {r \in clean : r.employee_id = employee_id}

\* C4: for an employee with at least one stored row, the row
\* fetch_latest_clean_row returns is a row of that employee whose created_at
\* is the maximum among the employee's rows, never another employee's.
C4_Freshest ==
    [][\A c \in Calls :
          (Resolves(c) /\ RowsOf(calls'[c].employee_id) # {}) =>
              \E r \in clean :
                  /\ r.id = calls'[c].row
                  /\ r.employee_id = calls'[c].employee_id
                  /\ \A q \in RowsOf(calls'[c].employee_id) :
                        q.created_at <= r.created_at]_vars

\* C4, its case: a call read the row at t2 of an employee who also has an
\* earlier-written row at t1 < t2.
C4_Witness ==
    \E c \in Calls : \E r, q \in clean :
        /\ calls[c].row = r.id
        /\ q.employee_id = r.employee_id
        /\ q.id < r.id
        /\ q.created_at < r.created_at

\* C5: for an employee with no stored row predict_from_clean raises the
\* not-found error before the classifier is invoked, and
\* predict_by_employee_id answers 404.
C5_NotFound ==
    [][\A c \in Calls :
          (Resolves(c) /\ RowsOf(calls'[c].employee_id) = {}) =>
              /\ calls'[c].pc = "done"
              /\ calls'[c].failure = "not_found"
              /\ calls'[c].res.kind = "raise"
              /\ calls'[c].res.exc = "ValueError"
              /\ ~calls'[c].invoked
              /\ calls'[c].status = 404]_vars

\* C5, its case: a call for an employee without rows ended not-found.
C5_Witness ==
    \E c \in Calls :
        /\ calls[c].failure = "not_found"
        /\ calls[c].status = 404
        /\ RowsOf(calls[c].employee_id) = {}

C7_AtomicAudit ==
    /\ \A r \in prediction_requests : \E p \in predictions : p.request_id = r.id
    /\ \A p \in predictions : \E r \in prediction_requests : r.id = p.request_id

\* C7, its case: one call failed between its flush and its commit, in the
\* handler that does not catch the exception, and another committed.
C7_Witness ==
    \E c, d \in Calls :
        /\ calls[c].mode = "by_features"
        /\ calls[c].failure = "commit"
        /\ calls[d].status = 200
        /\ predictions # {}

ServiceFailures ==
    {"not_found", "row_validation", "payload_validation", "classifier", "storage"}

\* C8: when the read or the inference of a call fails, no PredictionRequest
\* and no Prediction of that call is committed, on both handlers.
C8_NoAuditOnFailure ==
    \A c \in Calls :
        calls[c].failure \in ServiceFailures =>
            /\ \A r \in prediction_requests : r.call # c
            /\ \A p \in predictions : p.call # c

\* C8, its case: a by-features call failed in the classifier and a by-id
\* call failed not-found, each leaving nothing.
C8_Witness ==
    \E c, d \in Calls :
        /\ calls[c].mode = "by_features" /\ calls[c].failure = "classifier"
        /\ calls[d].mode = "by_employee_id" /\ calls[d].failure = "not_found"

\* C9, with the count the source has: feature_columns has exactly 32 names, without duplicates,
\* and every vector handed to the classifier has 32 entries.
C9_Width32 ==
    /\ Len(feature_columns) = 32
    /\ NoDuplicates(feature_columns)
    /\ \A c \in Calls : calls[c].invoked => calls[c].width = 32

\* C9, with the count 31: feature_columns has exactly 31 names, without duplicates,
\* and every assembled vector has 31 entries.
C9_Width31 ==
    /\ Len(feature_columns) = 31
    /\ NoDuplicates(feature_columns)
    /\ \A c \in Calls : calls[c].invoked => calls[c].width = 31

\* C9, its case: a vector was assembled and handed to the classifier on
\* each of the two paths.
C9_Witness ==
    \E c, d \in Calls :
        /\ calls[c].mode = "by_employee_id" /\ calls[c].invoked
        /\ calls[d].mode = "by_features" /\ calls[d].invoked

\* C10: the validation-side order MODEL_FEATURE_ORDER is, element by
\* element, the assembly-side order feature_columns.
C10_SameOrder ==
    /\ Len(MODEL_FEATURE_ORDER) = Len(feature_columns)
    /\ \A i \in 1..Len(feature_columns) :
          MODEL_FEATURE_ORDER[i] = feature_columns[i]

----------------------------------------------------------------------------
(* Numbers of the feature engineering.  A Python float or a cell of a      *)
(* numeric pandas column is an exact fraction n/d in lowest terms (d > 0),  *)
(* NaN, or an infinity; a value handed to the interactive path may also be *)
(* None or a string that is no number.                                     *)

Abs(x) == IF x < 0 THEN -x ELSE x

RECURSIVE GCD(_, _)
GCD(a, b) == IF b = 0 THEN a ELSE GCD(b, a % b)

\* The fraction n/d (d # 0) in lowest terms
Rat(n, d) ==
    LET g == GCD(Abs(n), Abs(d))
        z == IF d < 0 THEN -1 ELSE 1
    IN  [t |-> "num", n |-> (z * n) \div g, d |-> (z * d) \div g]

Num(n) == [t |-> "num", n |-> n, d |-> 1]

None == [t |-> "none", n |-> 0, d |-> 1]

NaN == [t |-> "nan", n |-> 0, d |-> 1]

\* +inf (n = 1) and -inf (n = -1)
Inf(sign) == [t |-> "inf", n |-> sign, d |-> 1]

\* A string that float() and int() refuse
NonNumeric == [t |-> "str", n |-> 0, d |-> 1]

Sign(x) == IF x.n > 0 THEN 1 ELSE IF x.n < 0 THEN -1 ELSE 0

\* float arithmetic on finite values
Add(x, y) == Rat(x.n * y.d + y.n * x.d, x.d * y.d)

Sub(x, y) == Rat(x.n * y.d - y.n * x.d, x.d * y.d)

Mul(x, y) == Rat(x.n * y.n, x.d * y.d)

\* x / y for y # 0
Div(x, y) == Rat(x.n * y.d, x.d * y.n)

Less(x, y) == x.n * y.d < y.n * x.d

----------------------------------------------------------------------------
(* dashboard/build_features.py *)

\* _f: float(x), or the default 0.0 when float raises TypeError (None) or
\* ValueError (a string that is no number)
_f(x) == IF x.t \in {"none", "str"} THEN Num(0) ELSE x

\* _i: int(x), truncating toward zero, or the default 0
_i(x) ==
    IF x.t \in {"none", "str"} THEN Num(0)
    ELSE Num(Sign(x) * (Abs(x.n) \div x.d))

\* a mutant of jeune_surcharge: the age bound is inclusive
jeune_surcharge_le30(age, hs) ==
    IF (~Less(Num(30), age)) /\ hs = Num(1) THEN Num(1) ELSE Num(0)

\* int((age < 30) and (hs == 1.0))
jeune_surcharge(age, hs) ==
    IF Less(age, Num(30)) /\ hs = Num(1) THEN Num(1) ELSE Num(0)

\* compute_engineered: the nine engineered features, or the
\* ZeroDivisionError of the first float division by zero
compute_engineered(values) ==
    LET sat_env == _f(values.satisfaction_employee_environnement)
        sat_nat == _f(values.satisfaction_employee_nature_travail)
        sat_eqp == _f(values.satisfaction_employee_equipe)
        sat_wlb == _f(values.satisfaction_employee_equilibre_pro_perso)
        satisfaction_moyenne ==
            Div(Add(Add(Add(sat_env, sat_nat), sat_eqp), sat_wlb), Num(4))
        pee     == _f(values.nombre_participation_pee)
        anc     == _f(values.annees_dans_l_entreprise)
        hs      == _f(values.heures_supplementaires)
        salaire == _f(values.revenu_mensuel)
        dist    == _f(values.distance_domicile_travail)
        denom   == Add(dist, Num(10))
        age     == _i(values.age)
        adlp    == _f(values.annees_depuis_la_derniere_promotion)
        nb_exp  == _f(values.nombre_experiences_precedentes)
        tot_exp == _f(values.annee_experience_totale)
        divisors == << Add(Add(pee, anc), Num(1)), Add(salaire, Num(1)),
                       Mul(denom, denom), Add(anc, Num(1)),
                       Add(tot_exp, Num(1)) >>
        ratio_heures_sup_salaire  == Div(hs, divisors[2])
        anciennete_sans_promotion == Div(Sub(anc, adlp), divisors[4])
    IN  IF \E k \in 1..Len(divisors) : divisors[k] = Num(0)
           THEN Raise("ZeroDivisionError", "float division by zero", <<>>)
        ELSE [kind |-> "ok",
              satisfaction_moyenne |-> satisfaction_moyenne,
              nonlineaire_participation_pee |-> Div(pee, divisors[1]),
              ratio_heures_sup_salaire |-> ratio_heures_sup_salaire,
              nonlinaire_charge_contrainte |-> Div(Mul(hs, dist), divisors[3]),
              nonlinaire_surmenage_insatisfaction |->
                  Mul(hs, Sub(Num(1), satisfaction_moyenne)),
              jeune_surcharge |-> jeune_surcharge(age, hs),
              anciennete_sans_promotion |-> anciennete_sans_promotion,
              mobilite_carriere |-> Div(nb_exp, divisors[5]),
              risque_global |->
                  Mul(Mul(ratio_heures_sup_salaire, anciennete_sans_promotion),
                      Sub(Num(1), satisfaction_moyenne))]

----------------------------------------------------------------------------
(* scripts/seed_ml_features.py: Transform.feature_engineering, on one row  *)
(* of the frame (every operation of it is row-wise).  The arithmetic is    *)
(* numpy's: a missing cell is NaN, NaN propagates, a division by zero      *)
(* gives an infinity or NaN and raises nothing.                            *)

\* A cell of the frame for a raw value: None is stored as NaN
Cell(x) == IF x.t = "none" THEN NaN ELSE x

np_add(x, y) ==
    IF x.t = "nan" \/ y.t = "nan" THEN NaN
    ELSE IF x.t = "inf" /\ y.t = "inf" THEN (IF x.n = y.n THEN x ELSE NaN)
    ELSE IF x.t = "inf" THEN x
    ELSE IF y.t = "inf" THEN y
    ELSE Add(x, y)

np_neg(x) ==
    IF x.t = "nan" THEN NaN
    ELSE IF x.t = "inf" THEN Inf(-x.n)
    ELSE Rat(-x.n, x.d)

np_sub(x, y) == np_add(x, np_neg(y))

np_mul(x, y) ==
    IF x.t = "nan" \/ y.t = "nan" THEN NaN
    ELSE IF x.t = "inf" \/ y.t = "inf"
       THEN (IF Sign(x) * Sign(y) = 0 THEN NaN ELSE Inf(Sign(x) * Sign(y)))
    ELSE Mul(x, y)

\* x / y; a zero divisor is +0 (every divisor here is a sum)
np_div(x, y) ==
    IF x.t = "nan" \/ y.t = "nan" THEN NaN
    ELSE IF x.t = "inf"
       THEN (IF y.t = "inf" THEN NaN
             ELSE Inf(IF Sign(y) < 0 THEN -x.n ELSE x.n))
    ELSE IF y.t = "inf" THEN Num(0)
    ELSE IF y = Num(0)
       THEN (IF x = Num(0) THEN NaN ELSE Inf(Sign(x)))
    ELSE Div(x, y)

np_less(x, y) ==
    IF x.t = "nan" \/ y.t = "nan" THEN FALSE
    ELSE IF x.t = "inf" THEN x.n < 0 /\ x # y
    ELSE IF y.t = "inf" THEN y.n > 0
    ELSE Less(x, y)

RECURSIVE np_sum(_)
np_sum(xs) == IF xs = <<>> THEN Num(0) ELSE np_add(Head(xs), np_sum(Tail(xs)))

\* DataFrame.mean(axis=1): the mean of the cells that are not NaN, NaN
\* when there is none
mean_skipna(xs) ==
    LET present == SelectSeq(xs, LAMBDA x : x.t # "nan")
    IN  IF present = <<>> THEN NaN
        ELSE np_div(np_sum(present), Num(Len(present)))

\* Transform.feature_engineering
feature_engineering(row) ==
    LET sat_cols ==
            << Cell(row.satisfaction_employee_environnement),
               Cell(row.satisfaction_employee_nature_travail),
               Cell(row.satisfaction_employee_equipe),
               Cell(row.satisfaction_employee_equilibre_pro_perso) >>
        satisfaction_moyenne == mean_skipna(sat_cols)
        pee == Cell(row.nombre_participation_pee)
        anc == Cell(row.annees_dans_l_entreprise)
        hs  == Cell(row.heures_supplementaires)
        d   == Cell(row.distance_domicile_travail)
        ratio_heures_sup_salaire ==
            np_div(hs, np_add(Cell(row.revenu_mensuel), Num(1)))
        anciennete_sans_promotion ==
            np_div(np_sub(anc, Cell(row.annees_depuis_la_derniere_promotion)),
                   np_add(anc, Num(1)))
    IN  [kind |-> "ok",
         satisfaction_moyenne |-> satisfaction_moyenne,
         nonlineaire_participation_pee |->
             np_div(pee, np_add(np_add(pee, anc), Num(1))),
         ratio_heures_sup_salaire |-> ratio_heures_sup_salaire,
         nonlinaire_charge_contrainte |->
             np_div(np_div(np_mul(hs, d), np_add(d, Num(10))), np_add(d, Num(10))),
         nonlinaire_surmenage_insatisfaction |->
             np_mul(hs, np_sub(Num(1), satisfaction_moyenne)),
         jeune_surcharge |->
             IF np_less(Cell(row.age), Num(30)) /\ hs = Num(1)
                THEN Num(1) ELSE Num(0),
         anciennete_sans_promotion |-> anciennete_sans_promotion,
         mobilite_carriere |->
             np_div(Cell(row.nombre_experiences_precedentes),
                    np_add(Cell(row.annee_experience_totale), Num(1))),
         risque_global |->
             np_mul(np_mul(ratio_heures_sup_salaire, anciennete_sans_promotion),
                    np_sub(Num(1), satisfaction_moyenne))]

----------------------------------------------------------------------------
(* The two feature-engineering paths applied to one RawAttributeSet.       *)

RawValues ==
    [satisfaction_employee_environnement : {None, Num(1), Num(2)},
     satisfaction_employee_nature_travail : {Num(2), Num(4), NonNumeric},
     satisfaction_employee_equipe : {Num(2)},
     satisfaction_employee_equilibre_pro_perso : {None, Num(2)},
     nombre_participation_pee : {Num(0), Num(1)},
     annees_dans_l_entreprise : {Num(-1), Num(0), Num(6)},
     heures_supplementaires : {Num(0), Num(1)},
     revenu_mensuel : {Num(-1), Num(3), Num(5993)},
     distance_domicile_travail : {Num(-10), Num(1), Num(5)},
     age : {None, Rat(59, 2), Num(30), Num(41)},
     annees_depuis_la_derniere_promotion : {Num(0), Num(1)},
     nombre_experiences_precedentes : {Num(8)},
     annee_experience_totale : {Num(-1), Num(8)}]

RawFields ==
    {"satisfaction_employee_environnement",
     "satisfaction_employee_nature_travail", "satisfaction_employee_equipe",
     "satisfaction_employee_equilibre_pro_perso", "nombre_participation_pee",
     "annees_dans_l_entreprise", "heures_supplementaires", "revenu_mensuel",
     "distance_domicile_travail", "age",
     "annees_depuis_la_derniere_promotion",
     "nombre_experiences_precedentes", "annee_experience_totale"}

\* compute_engineered(values)
call_compute_engineered ==
    /\ unit.op = "features"
    /\ unit.interactive.kind = "none"
    /\ unit' = [unit EXCEPT !.interactive = compute_engineered(unit.arg)]
    /\ UNCHANGED <<feature_columns, threshold, model, clean, clean_seq,
                   prediction_requests, predictions, req_seq, pred_seq, calls>>

\* Transform.feature_engineering(df), df holding the same values in
\* numeric columns
call_feature_engineering ==
    /\ unit.op = "features"
    /\ unit.batch.kind = "none"
    /\ \A k \in RawFields : unit.arg[k].t # "str"
    /\ unit' = [unit EXCEPT !.batch = feature_engineering(unit.arg)]
    /\ UNCHANGED <<feature_columns, threshold, model, clean, clean_seq,
                   prediction_requests, predictions, req_seq, pred_seq, calls>>

InitFeatures ==
    /\ feature_columns = ServiceFeatureColumns
    /\ threshold \in Probas
    /\ model = joblib_load(MODEL_FILE)
    /\ clean = {}
    /\ clean_seq = 0
    /\ prediction_requests = {}
    /\ predictions = {}
    /\ req_seq = 0
    /\ pred_seq = 0
    /\ calls = [c \in Calls |-> IdleCall]
    /\ \E values \in RawValues :
          unit = [op |-> "features", arg |-> values,
                  interactive |-> NoResult, batch |-> NoResult]

NextFeatures ==
    \/ call_compute_engineered
    \/ call_feature_engineering

SpecFeatures == InitFeatures /\ [][NextFeatures]_vars

----------------------------------------------------------------------------
(* scripts/seed_ml_features.py: one run of main.  The master frame, after   *)
(* the transforms, has one row per employee (employees 1..n, in order);    *)
(* a row is its employee_id and the set of its columns that are NaN.       *)

MaxFrame == 5

MaxStore == 4

\* The NaN patterns of a frame row: complete, NaN in a contract column
\* that is not critical, NaN in a critical column
FrameRowNans == << {}, {"genre"}, {"age"} >>

\* The frames of at most MaxFrame rows, as the pattern of each row; the
\* rows are taken in the order of FrameRowNans (which employees have the
\* NaN does not matter to the run)
Frames ==
    UNION { {fr \in [1..n -> 1..Len(FrameRowNans)] :
                \A j, k \in 1..n : j < k => fr[j] <= fr[k]} : n \in 0..MaxFrame }

\* The frame with row k given to employee k
MasterFrame(fr) ==
    [k \in 1..Len(fr) |-> [employee_id |-> k, nan |-> FrameRowNans[fr[k]]]]

critical ==
    << "employee_id", "age", "revenu_mensuel", "heures_supplementaires",
       "a_quitte_l_entreprise" >>

\* a mutant of isna_mean_gt_20: the bound is inclusive (>= 0.20)
isna_mean_ge_20(df, c) ==
    LET k == Cardinality({j \in 1..Len(df) : c \in df[j].nan})
    IN  Len(df) > 0 /\ 5 * k >= Len(df)

\* df[c].isna().mean() > 0.20 (the mean of an empty column is NaN, and
\* NaN > 0.20 is false)
isna_mean_gt_20(df, c) ==
    LET k == Cardinality({j \in 1..Len(df) : c \in df[j].nan})
    IN  Len(df) > 0 /\ 5 * k > Len(df)

\* validate_quality: the ValueError, or nothing
validate_quality(df) ==
    LET bad == SelectSeq(critical, LAMBDA c : isna_mean_gt_20(df, c))
    IN  IF bad # <<>>
           THEN Raise("ValueError", "Trop de NaN sur colonnes critiques (>20%)", bad)
           ELSE NoResult

\* enforce_not_null_ready: out.dropna(subset=DEST_COLS)
\* The DDL of clean.ml_features_employees: every column of DEST_COLS is
\* declared NOT NULL
NotNullColumns == Range(DEST_COLS)

\* enforce_not_null_ready: out.dropna(subset=DEST_COLS)
enforce_not_null_ready(df) ==
    LET subset == Range(DEST_COLS)
    IN  SelectSeq(df, LAMBDA r : r.nan \cap subset = {})

\* The rows df[DEST_COLS].to_sql(..., if_exists="append") adds to a table
\* whose last id is seq
to_sql(df, seq, t) ==
    LET lacks   == NotWritten(feature_columns)
        columns == Range(DEST_COLS)
    IN  { [CleanRow(seq + k, df[k].employee_id, t, lacks)
              EXCEPT !.nulls = df[k].nan \cap columns] : k \in 1..Len(df) }

\* main, run without --dry-run (a dry run returns before any write):
\* validate_quality, enforce_not_null_ready, truncate_destination (with
\* --refresh) and insert_destination.  unit keeps the run's frame, flag and
\* outcome.  created_at is now() at the insert, later than that of every
\* row already stored: the table's next id serves as the clock.
main(fr, refresh) ==
    LET df      == MasterFrame(fr)
        quality == validate_quality(df)
        ready   == enforce_not_null_ready(df)
        base    == IF refresh THEN {} ELSE clean
        seq     == IF refresh THEN 0 ELSE clean_seq
        rows    == to_sql(ready, seq, seq + 1)
        run(failure, written) ==
            [op |-> "main", frame |-> df, refresh |-> refresh,
             failure |-> failure, written |-> written]
    IN  /\ unit.op \in {"none", "main"}
        /\ Cardinality(base) + Len(ready) <= MaxStore
        /\ IF quality.kind = "raise"
              THEN /\ unit' = run("validate_quality", {})
                   /\ UNCHANGED <<clean, clean_seq>>
           ELSE IF \E r \in rows : r.nulls \cap NotNullColumns # {}
              THEN \* IntegrityError: the insert's transaction rolls back,
                   \* after the truncate's has committed
                   /\ unit' = run("insert_destination", {})
                   /\ clean' = base
                   /\ clean_seq' = seq
           ELSE /\ unit' = run("none", rows)
                /\ clean' = base \cup rows
                /\ clean_seq' = seq + Len(ready)
        /\ UNCHANGED <<feature_columns, threshold, model, prediction_requests,
                       predictions, req_seq, pred_seq, calls>>

\* The service reads the freshest row of an employee and assembles it
\* (fetch_latest_clean_row, then _row_to_X), the seeding done
call_fetch_row_to_X ==
    /\ unit.op = "main"
    /\ \E employee_id \in 1..MaxFrame :
          \E row \in fetch_latest_clean_row(feature_columns, clean, employee_id) :
             unit' = [op |-> "fetch_row_to_X", run |-> unit,
                      employee_id |-> employee_id, row |-> row.id,
                      out |-> IF row.kind = "none" THEN NoResult
                              ELSE row_to_X(feature_columns, row.mapping)]
    /\ TechNovaServiceReadOnly
    /\ UNCHANGED <<clean, clean_seq,
                   prediction_requests, predictions, req_seq, pred_seq, calls>>

NextSeed ==
    \/ \E fr \in Frames, refresh \in BOOLEAN : main(fr, refresh)
    \/ call_fetch_row_to_X

SpecSeed == Init /\ [][NextSeed]_vars

----------------------------------------------------------------------------
(* The application's lifespan (app/api.py): service_singleton, lifespan,   *)
(* get_service.  The lifespan's state is kept in `unit`; the handlers are  *)
(* the ones above, run on the service get_service hands them.              *)

MaxLifetimes == 2

\* service_singleton: TechNovaService | None = None
NoService == 0

\* The attributes of a TechNovaService that has not been constructed
NoModel == [pipeline |-> "none"]

\* a mutant of get_service: the singleton is returned without the assertion
get_service_unchecked(service_singleton) ==
    [kind |-> "ok", service |-> service_singleton]

\* get_service(): assert service_singleton is not None; return it
get_service(service_singleton) ==
    IF service_singleton = NoService
       THEN Raise("AssertionError", "Service not initialized", <<>>)
       ELSE [kind |-> "ok", service |-> service_singleton]

NotHanded == [kind |-> "none"]

\* lifespan, up to its yield: service_singleton = TechNovaService().  The
\* constructor loads the model and the threshold and declares the contract;
\* the object is the (instances + 1)-th TechNovaService of the process.
lifespan_startup ==
    /\ unit.phase \in {"before", "after"}
    /\ unit.lifetime < MaxLifetimes
    /\ unit' = [unit EXCEPT !.phase = "serving",
                            !.lifetime = unit.lifetime + 1,
                            !.instances = unit.instances + 1,
                            !.service_singleton = unit.instances + 1]
    /\ model' = joblib_load(MODEL_FILE)
    /\ threshold' \in Probas
    /\ feature_columns' = ServiceFeatureColumns
    /\ UNCHANGED <<clean, clean_seq, prediction_requests, predictions,
                   req_seq, pred_seq, calls>>

\* lifespan, after its yield: service_singleton = None.  The server runs it
\* once the requests in flight have been answered.
lifespan_shutdown ==
    /\ unit.phase = "serving"
    /\ \A c \in Calls :
          \/ calls[c].pc = "done"
          \/ calls[c].pc = "idle" /\ unit.handed[c] = NotHanded
    /\ unit' = [unit EXCEPT !.phase = "after",
                            !.service_singleton = NoService]
    /\ UNCHANGED <<feature_columns, threshold, model, clean, clean_seq,
                   prediction_requests, predictions, req_seq, pred_seq, calls>>

\* A request arrives: FastAPI resolves Depends(get_service) before the
\* handler's body.  A failed assertion is not the handler's to catch: the
\* request is answered 500 and the handler never runs.
depends_get_service(c) ==
    /\ calls[c].pc = "idle"
    /\ Started(c)
    /\ unit.handed[c] = NotHanded
    /\ LET out == get_service(unit.service_singleton)
       IN  /\ unit' = [unit EXCEPT !.handed[c] =
                          [phase |-> unit.phase, lifetime |-> unit.lifetime,
                           out |-> out]]
           /\ IF out.kind = "raise"
                 THEN calls' = [calls EXCEPT ![c].pc = "done",
                                             ![c].res = out,
                                             ![c].failure = "get_service",
                                             ![c].status = 500]
                 ELSE UNCHANGED calls
    /\ UNCHANGED <<feature_columns, threshold, model, clean, clean_seq,
                   prediction_requests, predictions, req_seq, pred_seq>>

\* The handler's body runs on the service the dependency returned.
Handed(c) ==
    /\ unit.handed[c] # NotHanded
    /\ unit.handed[c].out.kind = "ok"

InitLifespan ==
    /\ feature_columns = <<>>
    /\ threshold = 0
    /\ model = NoModel
    /\ clean = {}
    /\ clean_seq = 0
    /\ prediction_requests = {}
    /\ predictions = {}
    /\ req_seq = 0
    /\ pred_seq = 0
    /\ calls = [c \in Calls |-> IdleCall]
    /\ unit = [op |-> "lifespan", phase |-> "before", lifetime |-> 0,
               instances |-> 0, service_singleton |-> NoService,
               handed |-> [c \in Calls |-> NotHanded]]

NextLifespan ==
    \/ lifespan_startup
    \/ lifespan_shutdown
    \/ \E c \in Calls : depends_get_service(c)
    \/ \E c \in Calls : Handed(c) /\ by_employee_id_predict(c)
    \/ \E c \in Calls : Handed(c) /\ by_features_predict(c)
    \/ \E c \in Calls : audit_flush(c)
    \/ \E c \in Calls : audit_commit(c)

SpecLifespan == InitLifespan /\ [][NextLifespan]_vars

----------------------------------------------------------------------------
(* The API key (app/security.py) in front of the routes of app/api.py.     *)
(* The state of the check is kept in `unit`; the prediction handlers are   *)
(* the ones above.                                                         *)

\* os.getenv("API_KEY") and the X-API-Key header: a string, or None
NoKey == [set |-> FALSE, value |-> ""]

Key(s) == [set |-> TRUE, value |-> s]

\* What the environment may hold, and what a client may send
ApiKeys == {NoKey, Key(""), Key("k1")}

Headers == {NoKey, Key(""), Key("k1"), Key("k2")}

HTTPException(status_code, detail) ==
    [kind |-> "raise", exc |-> "HTTPException", status_code |-> status_code,
     detail |-> detail]

\* Python's truth value of os.getenv's result
Truthy(k) == k.set /\ k.value # ""

\* a mutant of verify_api_key: the server's configuration is not checked
verify_api_key_unconfigured(api_key, x_api_key) ==
    IF x_api_key # api_key
       THEN HTTPException(401, "Invalid or missing API key")
       ELSE [kind |-> "ok"]

\* verify_api_key(x_api_key), api_key being os.getenv("API_KEY")
verify_api_key(api_key, x_api_key) ==
    IF ~Truthy(api_key)
       THEN HTTPException(500, "API_KEY not configured on server")
    ELSE IF x_api_key # api_key
       THEN HTTPException(401, "Invalid or missing API key")
       ELSE [kind |-> "ok"]

\* The routes app/api.py registers, with their dependencies=[...]
Routes ==
    { [path |-> "/",                            protected |-> FALSE],
      [path |-> "/health",                      protected |-> TRUE],
      [path |-> "/ready",                       protected |-> TRUE],
      [path |-> "/predict/by-id/{employee_id}", protected |-> TRUE],
      [path |-> "/predict/by-features",         protected |-> TRUE],
      [path |-> "/predictions/latest",          protected |-> TRUE] }

NotChecked == [kind |-> "none"]

\* A request arrives on a route: its dependencies=[Depends(verify_api_key)]
\* run before the handler.  The HTTPException is the response; the handler
\* never runs.
depends_verify_api_key(c) ==
    /\ calls[c].pc = "idle"
    /\ Started(c)
    /\ unit.checked[c] = NotChecked
    /\ \E route \in Routes, x_api_key \in Headers :
          LET out == IF route.protected
                        THEN verify_api_key(unit.API_KEY, x_api_key)
                        ELSE [kind |-> "ok"]
          IN  /\ unit' = [unit EXCEPT !.checked[c] =
                             [kind |-> "checked", route |-> route,
                              x_api_key |-> x_api_key, out |-> out]]
              /\ IF out.kind = "raise"
                    THEN calls' = [calls EXCEPT ![c].pc = "done",
                                                ![c].res = out,
                                                ![c].failure = "verify_api_key",
                                                ![c].status = out.status_code]
                    ELSE UNCHANGED calls
    /\ UNCHANGED <<feature_columns, threshold, model, clean, clean_seq,
                   prediction_requests, predictions, req_seq, pred_seq>>

\* The request of call c passed the dependencies of the route `path`
Routed(c, path) ==
    /\ unit.checked[c] # NotChecked
    /\ unit.checked[c].out.kind = "ok"
    /\ unit.checked[c].route.path = path

\* root (a redirect to /docs), health, ready (the service is loaded and the
\* database answers, or 503) and latest_predictions: they read and answer.
read_only_handler(c) ==
    /\ calls[c].pc = "idle"
    /\ \E path \in {"/", "/health", "/ready", "/predictions/latest"} :
          /\ Routed(c, path)
          /\ \E status \in IF path = "/" THEN {307}
                           ELSE IF path = "/ready" THEN {200, 503}
                           ELSE {200} :
                calls' = [calls EXCEPT ![c].pc = "done", ![c].mode = path,
                                       ![c].status = status]
    /\ UNCHANGED <<feature_columns, threshold, model, clean, clean_seq,
                   prediction_requests, predictions, req_seq, pred_seq, unit>>

\* The service is loaded; the environment holds API_KEY or does not.
InitSecurity ==
    /\ feature_columns = ServiceFeatureColumns
    /\ threshold \in Probas
    /\ model = joblib_load(MODEL_FILE)
    /\ clean = {}
    /\ clean_seq = 0
    /\ prediction_requests = {}
    /\ predictions = {}
    /\ req_seq = 0
    /\ pred_seq = 0
    /\ calls = [c \in Calls |-> IdleCall]
    /\ \E api_key \in ApiKeys :
          unit = [op |-> "security", API_KEY |-> api_key,
                  checked |-> [c \in Calls |-> NotChecked]]

NextSecurity ==
    \/ \E c \in Calls : depends_verify_api_key(c)
    \/ \E c \in Calls : read_only_handler(c)
    \/ \E c \in Calls :
          Routed(c, "/predict/by-id/{employee_id}") /\ by_employee_id_predict(c)
    \/ \E c \in Calls :
          Routed(c, "/predict/by-features") /\ by_features_predict(c)
    \/ \E c \in Calls : audit_flush(c)
    \/ \E c \in Calls : audit_commit(c)

SpecSecurity == InitSecurity /\ [][NextSecurity]_vars

----------------------------------------------------------------------------
(* get_db (app/database.py), a generator: the caller (FastAPI's dependency *)
(* machinery, or a test) creates it, advances it to its yield, and ends it *)
(* by resuming it, throwing into it or closing it.                         *)

MaxGenerators == 3

Generators == 1..MaxGenerators

\* A generator object get_db() returned; no line of its body has run
NewGenerator == [pc |-> "created", opened |-> FALSE, closes |-> 0, how |-> "none"]

NoGenerator == [pc |-> "none", opened |-> FALSE, closes |-> 0, how |-> "none"]

\* The ways the caller ends a generator suspended at `yield db`: the
\* endpoint returned (next), the endpoint raised (throw), close()
Ends == {"next", "throw", "close"}

\* a mutant of get_db_resume: `yield db; db.close()` without try/finally
get_db_resume_no_finally(gen, how) ==
    [gen EXCEPT !.pc = "done", !.how = how,
                !.closes = IF how = "next" THEN gen.closes + 1 ELSE gen.closes]

\* get_db resumed at `yield db` (lines 100-102): whatever arrives at the
\* yield, the finally clause runs db.close(), and the generator is finished.
get_db_resume(gen, how) ==
    [gen EXCEPT !.pc = "done", !.how = how, !.closes = gen.closes + 1]

GetDbFrame ==
    UNCHANGED <<feature_columns, threshold, model, clean, clean_seq,
                prediction_requests, predictions, req_seq, pred_seq, calls>>

\* gen = get_db()
get_db(g) ==
    /\ unit.gens[g] = NoGenerator
    /\ \A h \in Generators : h < g => unit.gens[h] # NoGenerator
    /\ unit' = [unit EXCEPT !.gens[g] = NewGenerator]
    /\ GetDbFrame

\* next(gen): db = SessionLocal() (line 98), then the yield; or
\* SessionLocal() raises and no session exists.
get_db_next(g) ==
    /\ unit.gens[g].pc = "created"
    /\ \/ unit' = [unit EXCEPT !.gens[g].pc = "yielded",
                               !.gens[g].opened = TRUE]
       \/ unit' = [unit EXCEPT !.gens[g].pc = "done",
                               !.gens[g].how = "SessionLocal raised"]
    /\ GetDbFrame

\* gen.close() on a generator that never started: its body never runs
get_db_close_unstarted(g) ==
    /\ unit.gens[g].pc = "created"
    /\ unit' = [unit EXCEPT !.gens[g].pc = "done",
                            !.gens[g].how = "closed unstarted"]
    /\ GetDbFrame

\* The request ends: the generator suspended at its yield is resumed,
\* thrown into, or closed.
get_db_end(g) ==
    /\ unit.gens[g].pc = "yielded"
    /\ \E how \in Ends :
          unit' = [unit EXCEPT !.gens[g] = get_db_resume(unit.gens[g], how)]
    /\ GetDbFrame

InitGetDb ==
    /\ feature_columns = ServiceFeatureColumns
    /\ threshold \in Probas
    /\ model = joblib_load(MODEL_FILE)
    /\ clean = {}
    /\ clean_seq = 0
    /\ prediction_requests = {}
    /\ predictions = {}
    /\ req_seq = 0
    /\ pred_seq = 0
    /\ calls = [c \in Calls |-> IdleCall]
    /\ unit = [op |-> "get_db", gens |-> [g \in Generators |-> NoGenerator]]

NextGetDb ==
    \/ \E g \in Generators : get_db(g)
    \/ \E g \in Generators : get_db_next(g)
    \/ \E g \in Generators : get_db_close_unstarted(g)
    \/ \E g \in Generators : get_db_end(g)

\* Every request ends: the caller that advanced a generator to its yield
\* ends it (FastAPI's exit stack; a garbage-collected generator is closed).
SpecGetDb ==
    /\ InitGetDb
    /\ [][NextGetDb]_vars
    /\ \A g \in Generators : WF_vars(get_db_end(g))

----------------------------------------------------------------------------
(* The supervisor (app/main.py): main() starts the API and the dashboard,  *)
(* polls them, and stops the other when one has exited.  A                 *)
(* KeyboardInterrupt may arrive between any two statements.  The position  *)
(* of main and the children's state are kept in `unit`.                    *)

MaxPolls == 3

MaxInterrupts == 2

\* The statements of main() inside its try block (lines 40-55)
TryBlock == {"poll_api", "poll_dashboard", "branch", "break", "sleep"}

\* Popen.poll(): None while the child runs, its return code afterwards
poll(child) == IF child = "running" THEN "None" ELSE "0"

\* a mutant of loop_branch: the dashboard branch comes first
loop_branch_dashboard_first(api_code, dash_code) ==
    IF dash_code # "None" THEN [terminate |-> <<"api">>, break |-> TRUE]
    ELSE IF api_code # "None" THEN [terminate |-> <<"dashboard">>, break |-> TRUE]
    ELSE [terminate |-> <<>>, break |-> FALSE]

\* a mutant of loop_branch: an exited API stops both children
loop_branch_both(api_code, dash_code) ==
    IF api_code # "None"
       THEN [terminate |-> <<"dashboard", "api">>, break |-> TRUE]
    ELSE IF dash_code # "None" THEN [terminate |-> <<"api">>, break |-> TRUE]
    ELSE [terminate |-> <<>>, break |-> FALSE]

\* Lines 45-53: the process the loop terminates, and whether it breaks
loop_branch(api_code, dash_code) ==
    IF api_code # "None" THEN [terminate |-> <<"dashboard">>, break |-> TRUE]
    ELSE IF dash_code # "None" THEN [terminate |-> <<"api">>, break |-> TRUE]
    ELSE [terminate |-> <<>>, break |-> FALSE]

\* a mutant of except_KeyboardInterrupt: the dashboard is left running
except_KeyboardInterrupt_api_only == <<"api">>

\* Lines 57-60: the processes the handler terminates, in order
except_KeyboardInterrupt == <<"api", "dashboard">>

\* Whether main has seen (by its last poll) that process p exited
Observed(u, p) == IF p = "api" THEN u.api_code # "None" ELSE u.dash_code # "None"

\* p.terminate() called at `site` ("loop" or "except"); the entry keeps
\* whether main had observed p exited when it called
Terminate(u, procs, site) ==
    u.terminated \o [k \in 1..Len(procs) |->
                        [proc |-> procs[k], site |-> site,
                         observed |-> Observed(u, procs[k])]]

MainFrame ==
    UNCHANGED <<feature_columns, threshold, model, clean, clean_seq,
                prediction_requests, predictions, req_seq, pred_seq, calls>>

\* api = run_api()
main_run_api ==
    /\ unit.pc = "run_api"
    /\ unit' = [unit EXCEPT !.pc = "run_dashboard", !.popen = @ \o <<"api">>,
                            !.api = "running"]
    /\ MainFrame

\* dashboard = run_dashboard() (and the two prints)
main_run_dashboard ==
    /\ unit.pc = "run_dashboard"
    /\ unit' = [unit EXCEPT !.pc = "poll_api",
                            !.popen = @ \o <<"dashboard">>,
                            !.dashboard = "running"]
    /\ MainFrame

\* api_code = api.poll()
main_poll_api ==
    /\ unit.pc = "poll_api"
    /\ unit' = [unit EXCEPT !.pc = "poll_dashboard",
                            !.api_code = poll(unit.api),
                            !.polls = @ + 1]
    /\ MainFrame

\* dash_code = dashboard.poll()
main_poll_dashboard ==
    /\ unit.pc = "poll_dashboard"
    /\ unit' = [unit EXCEPT !.pc = "branch",
                            !.dash_code = poll(unit.dashboard)]
    /\ MainFrame

\* The two ifs: terminate the other child, or fall through to the sleep
main_branch ==
    /\ unit.pc = "branch"
    /\ LET b == loop_branch(unit.api_code, unit.dash_code)
       IN  unit' = [unit EXCEPT
                      !.pc = IF b.break THEN "break" ELSE "sleep",
                      !.terminated = Terminate(unit, b.terminate, "loop")]
    /\ MainFrame

\* break: the loop and the try are left, main returns
main_break ==
    /\ unit.pc = "break"
    /\ unit' = [unit EXCEPT !.pc = "returned"]
    /\ MainFrame

\* time.sleep(0.3), then the next iteration
main_sleep ==
    /\ unit.pc = "sleep"
    /\ unit.polls < MaxPolls
    /\ unit' = [unit EXCEPT !.pc = "poll_api"]
    /\ MainFrame

\* A KeyboardInterrupt is raised in main: inside the try block the handler
\* takes it; before the try or inside the handler it propagates.
main_KeyboardInterrupt ==
    /\ unit.pc \notin {"returned", "propagated"}
    /\ Len(unit.interrupts) < MaxInterrupts
    /\ unit' = [unit EXCEPT
                  !.pc = IF unit.pc \in TryBlock THEN "except_api"
                                                 ELSE "propagated",
                  !.interrupts = @ \o <<[pc |-> unit.pc, api |-> unit.api,
                                         dashboard |-> unit.dashboard,
                                         api_code |-> unit.api_code,
                                         dash_code |-> unit.dash_code]>>]
    /\ MainFrame

\* except KeyboardInterrupt: api.terminate()
main_except_api ==
    /\ unit.pc = "except_api"
    /\ unit' = [unit EXCEPT
                  !.pc = IF Len(except_KeyboardInterrupt) > 1
                            THEN "except_dashboard" ELSE "returned",
                  !.terminated = Terminate(unit, <<except_KeyboardInterrupt[1]>>,
                                           "except")]
    /\ MainFrame

\* except KeyboardInterrupt: dashboard.terminate(), and main returns
main_except_dashboard ==
    /\ unit.pc = "except_dashboard"
    /\ unit' = [unit EXCEPT
                  !.pc = "returned",
                  !.terminated = Terminate(unit, <<except_KeyboardInterrupt[2]>>,
                                           "except")]
    /\ MainFrame

\* The API process exits (on its own, or after a terminate)
api_exits ==
    /\ unit.api = "running"
    /\ unit' = [unit EXCEPT !.api = "exited"]
    /\ MainFrame

\* The dashboard process exits
dashboard_exits ==
    /\ unit.dashboard = "running"
    /\ unit' = [unit EXCEPT !.dashboard = "exited"]
    /\ MainFrame

InitMain ==
    /\ feature_columns = ServiceFeatureColumns
    /\ threshold \in Probas
    /\ model = joblib_load(MODEL_FILE)
    /\ clean = {}
    /\ clean_seq = 0
    /\ prediction_requests = {}
    /\ predictions = {}
    /\ req_seq = 0
    /\ pred_seq = 0
    /\ calls = [c \in Calls |-> IdleCall]
    /\ unit = [op |-> "supervisor", pc |-> "run_api", api |-> "none",
               dashboard |-> "none", api_code |-> "None",
               dash_code |-> "None", popen |-> <<>>, terminated |-> <<>>,
               polls |-> 0, interrupts |-> <<>>]

NextMain ==
    \/ main_run_api
    \/ main_run_dashboard
    \/ main_poll_api
    \/ main_poll_dashboard
    \/ main_branch
    \/ main_break
    \/ main_sleep
    \/ main_KeyboardInterrupt
    \/ main_except_api
    \/ main_except_dashboard
    \/ api_exits
    \/ dashboard_exits

SpecMain == InitMain /\ [][NextMain]_vars

----------------------------------------------------------------------------
(* A --refresh run of the seeding script beside the API: main's            *)
(* truncate_destination and insert_destination are two transactions, and   *)
(* predict_by_employee_id may read between them.  `unit` keeps the         *)
(* script's position.                                                      *)

\* a mutant of truncate_destination: the TRUNCATE waits for the insert's
\* transaction, readers keep seeing the old rows
truncate_destination_deferred(table) == table

\* truncate_destination: TRUNCATE TABLE ... RESTART IDENTITY, committed
\* when its `with engine.begin()` block ends
truncate_destination(table) == {}

\* main with --refresh, up to the end of truncate_destination (the frame
\* has passed the validations)
refresh_truncate ==
    /\ unit.pc \in {"idle", "failed"}
    /\ clean # {}  \/  unit.pc = "failed"
    /\ clean' = truncate_destination(clean)
    /\ clean_seq' = 0
    /\ unit' = [unit EXCEPT !.pc = "truncated"]
    /\ UNCHANGED <<feature_columns, threshold, model, prediction_requests,
                   predictions, req_seq, pred_seq, calls>>

\* main with --refresh, insert_destination: its transaction commits the
\* rows of the frame, or fails and rolls back (the script ends on the
\* exception, the truncate stays committed)
refresh_insert ==
    /\ unit.pc = "truncated"
    /\ \/ \E batch \in (SUBSET EmployeeIds) \ {{}}, t \in Times :
             /\ Cardinality(clean) + Cardinality(batch) <= MaxRows
             /\ clean' = clean \cup
                    {CleanRow(clean_seq + Rank(batch, e), e, t,
                              NotWritten(feature_columns)) : e \in batch}
             /\ clean_seq' = clean_seq + Cardinality(batch)
             /\ unit' = [unit EXCEPT !.pc = "idle"]
       \/ /\ unit' = [unit EXCEPT !.pc = "failed"]
          /\ UNCHANGED <<clean, clean_seq>>
    /\ UNCHANGED <<feature_columns, threshold, model, prediction_requests,
                   predictions, req_seq, pred_seq, calls>>

\* main without --refresh, the first seeding of the table:
\* insert_destination alone (later runs, and the run after a failed
\* refresh, are run with --refresh)
seed_insert ==
    /\ unit.pc = "idle"
    /\ clean = {}
    /\ \E batch \in (SUBSET EmployeeIds) \ {{}}, t \in Times :
          insert_destination(batch, t)

InitRefresh ==
    /\ feature_columns = ServiceFeatureColumns
    /\ threshold \in Probas
    /\ model = joblib_load(MODEL_FILE)
    /\ clean = {}
    /\ clean_seq = 0
    /\ prediction_requests = {}
    /\ predictions = {}
    /\ req_seq = 0
    /\ pred_seq = 0
    /\ calls = [c \in Calls |-> IdleCall]
    /\ unit = [op |-> "seed", pc |-> "idle"]

NextRefresh ==
    \/ seed_insert
    \/ refresh_truncate
    \/ refresh_insert
    \/ \E c \in Calls : by_employee_id_predict(c)
    \/ \E c \in Calls : audit_flush(c)
    \/ \E c \in Calls : audit_commit(c)

SpecRefresh == InitRefresh /\ [][NextRefresh]_vars

----------------------------------------------------------------------------
(* The dashboard (dashboard/dshbd.py) as a client of the API: the URLs it  *)
(* requests, routed by the application as the route decorators declare.    *)
(* A URL path is the sequence of its segments.                             *)

\* dshbd.py: the URLs, relative to API_BASE
API_PREDICT_BY_ID == <<"predict", "by-id">>

API_PREDICT_DEBUG == <<"predict", "debug">>

API_LATEST == <<"predictions", "latest">>

API_ROOT == <<>>

\* The requests the dashboard sends: the button pressed, the method, the URL
DashboardRequests ==
    { [button |-> "Tester l'API", method |-> "GET", url |-> API_ROOT],
      [button |-> "Rafraichir", method |-> "GET", url |-> API_LATEST],
      [button |-> "Lancer la prediction (features)", method |-> "POST",
       url |-> API_PREDICT_DEBUG] }
    \cup { [button |-> "Lancer la prediction (ID)", method |-> "POST",
            url |-> API_PREDICT_BY_ID \o <<e>>] : e \in EmployeeIds }

\* DEFAULT_HEADERS = {"X-API-Key": API_KEY} if API_KEY else {}
DEFAULT_HEADERS(api_key) == IF Truthy(api_key) THEN api_key ELSE NoKey

\* The method and the path template of each route of app/api.py
RouteTable ==
    { [path |-> "/", method |-> "GET", template |-> <<>>],
      [path |-> "/health", method |-> "GET", template |-> <<"health">>],
      [path |-> "/ready", method |-> "GET", template |-> <<"ready">>],
      [path |-> "/predict/by-id/{employee_id}", method |-> "POST",
       template |-> <<"predict", "by-id", "{employee_id}">>],
      [path |-> "/predict/by-features", method |-> "POST",
       template |-> <<"predict", "by-features">>],
      [path |-> "/predictions/latest", method |-> "GET",
       template |-> <<"predictions", "latest">>] }

\* A URL matches a template segment by segment; {employee_id}: int takes
\* an integer segment
PathMatches(template, url) ==
    /\ Len(template) = Len(url)
    /\ \A k \in 1..Len(url) :
          IF template[k] = "{employee_id}" THEN url[k] \in Int
                                           ELSE url[k] = template[k]

\* The application's router: the route of a request, 404 when no path
\* matches, 405 when the path matches with another method
Resolve(method, url) ==
    LET hit == {r \in RouteTable : PathMatches(r.template, url)}
    IN  IF hit = {} THEN HTTPException(404, "Not Found")
        ELSE IF \A r \in hit : r.method # method
           THEN HTTPException(405, "Method Not Allowed")
        ELSE [kind |-> "ok", path |-> (CHOOSE r \in hit : r.method = method).path]

\* The dashboard sends a request (safe_request): the router resolves it,
\* the route's dependencies run, and the handler is reached or the error
\* is the response.
dashboard_request(c) ==
    /\ calls[c].pc = "idle"
    /\ Started(c)
    /\ unit.checked[c] = NotChecked
    /\ \E req \in DashboardRequests :
          LET x_api_key == DEFAULT_HEADERS(unit.dashboard_key)
              found == Resolve(req.method, req.url)
              route == IF found.kind = "ok"
                          THEN CHOOSE r \in Routes : r.path = found.path
                          ELSE [path |-> "", protected |-> FALSE]
              out   == IF found.kind = "raise" THEN found
                       ELSE IF route.protected
                          THEN verify_api_key(unit.API_KEY, x_api_key)
                          ELSE [kind |-> "ok"]
          IN  /\ unit' = [unit EXCEPT !.checked[c] =
                             [kind |-> "checked", route |-> route,
                              x_api_key |-> x_api_key, out |-> out,
                              button |-> req.button]]
              /\ IF out.kind = "raise"
                    THEN calls' = [calls EXCEPT
                                      ![c].pc = "done", ![c].res = out,
                                      ![c].failure = IF found.kind = "raise"
                                                        THEN "routing"
                                                        ELSE "verify_api_key",
                                      ![c].status = out.status_code]
                    ELSE UNCHANGED calls
    /\ UNCHANGED <<feature_columns, threshold, model, clean, clean_seq,
                   prediction_requests, predictions, req_seq, pred_seq>>

\* The API holds its API_KEY, the dashboard its own (the two read the
\* variable from their own environment)
InitDashboard ==
    /\ feature_columns = ServiceFeatureColumns
    /\ threshold \in Probas
    /\ model = joblib_load(MODEL_FILE)
    /\ clean = {}
    /\ clean_seq = 0
    /\ prediction_requests = {}
    /\ predictions = {}
    /\ req_seq = 0
    /\ pred_seq = 0
    /\ calls = [c \in Calls |-> IdleCall]
    /\ \E api_key \in ApiKeys, dashboard_key \in ApiKeys :
          unit = [op |-> "security", API_KEY |-> api_key,
                  dashboard_key |-> dashboard_key,
                  checked |-> [c \in Calls |-> NotChecked]]

\* The dashboard's requests beside those of other clients
NextDashboard ==
    \/ \E c \in Calls : dashboard_request(c)
    \/ \E c \in Calls : depends_verify_api_key(c)
    \/ \E c \in Calls : read_only_handler(c)
    \/ \E c \in Calls :
          Routed(c, "/predict/by-id/{employee_id}") /\ by_employee_id_predict(c)
    \/ \E c \in Calls :
          Routed(c, "/predict/by-features") /\ by_features_predict(c)
    \/ \E c \in Calls : audit_flush(c)
    \/ \E c \in Calls : audit_commit(c)

SpecDashboard == InitDashboard /\ [][NextDashboard]_vars

----------------------------------------------------------------------------
(* Properties, continued *)

\* C11, with the message 'Missing features': _row_to_X on a row lacking
\* contract features raises the validation error 'Missing features' naming
\* exactly the missing keys.
C11_RowMissingFeatures ==
    (unit.op = "_row_to_X" /\ Absent(feature_columns, unit.arg) # {}) =>
        /\ unit.out.kind = "raise"
        /\ unit.out.exc = "ValueError"
        /\ unit.out.msg = "Missing features"
        /\ ListsInOrderOf(unit.out.names, Absent(feature_columns, unit.arg),
                          feature_columns)

\* C11, with the message the source has: _row_to_X on a row lacking
\* contract features raises the validation error 'Clean row missing
\* required features' naming exactly the missing keys.
C11_CleanRowMissing ==
    (unit.op = "_row_to_X" /\ Absent(feature_columns, unit.arg) # {}) =>
        /\ unit.out.kind = "raise"
        /\ unit.out.exc = "ValueError"
        /\ unit.out.msg = "Clean row missing required features"
        /\ ListsInOrderOf(unit.out.names, Absent(feature_columns, unit.arg),
                          feature_columns)

\* C11, its case: _row_to_X was given a row with an extra key and none of
\* the two features of the contract, and named the two.
C11_Witness ==
    /\ unit.op = "_row_to_X"
    /\ Has(unit.arg, "foo")
    /\ Cardinality(Absent(feature_columns, unit.arg)) = 2
    /\ unit.out.kind = "raise"
    /\ Len(unit.out.names) = 2

\* The mappings with the pairs of m, in any key order
Reordered(m) == {n \in UnitMappings : Range(n) = Range(m)}

\* C12: on a row holding every contract feature, extra keys or not,
\* _row_to_X succeeds; its output has exactly the contract's columns, in
\* contract order, with the row's values; no extra key appears in it and
\* the output is the same for every key order of the row.
C12_RowToX ==
    (unit.op = "_row_to_X" /\ Absent(feature_columns, unit.arg) = {}) =>
        /\ unit.out.kind = "ok"
        /\ unit.out.columns = feature_columns
        /\ Len(unit.out.values) = Len(feature_columns)
        /\ \A i \in 1..Len(feature_columns) :
              \E j \in 1..Len(unit.arg) :
                  unit.arg[j] = <<feature_columns[i], unit.out.values[i]>>
        /\ Range(unit.out.columns) \cap Beyond(feature_columns, unit.arg) = {}
        /\ \A n \in Reordered(unit.arg) :
              row_to_X(feature_columns, n) = unit.out

\* C12, its case: a row with an extra key first and the two contract
\* features in the opposite of contract order, with different values, was
\* assembled.
C12_Witness ==
    /\ unit.op = "_row_to_X"
    /\ Len(feature_columns) = 2
    /\ Len(unit.arg) = 3
    /\ unit.arg[1][1] = "foo"
    /\ unit.arg[2][1] = feature_columns[2]
    /\ unit.arg[3][1] = feature_columns[1]
    /\ unit.arg[2][2] # unit.arg[3][2]
    /\ unit.out.kind = "ok"

EngineeredFeatures ==
    {"satisfaction_moyenne", "nonlineaire_participation_pee",
     "ratio_heures_sup_salaire", "nonlinaire_charge_contrainte",
     "nonlinaire_surmenage_insatisfaction", "jeune_surcharge",
     "anciennete_sans_promotion", "mobilite_carriere", "risque_global"}

\* Both paths have been applied to the RawAttributeSet
BothComputed ==
    /\ unit.op = "features"
    /\ unit.interactive.kind # "none"
    /\ unit.batch.kind # "none"

\* C13: compute_engineered and Transform.feature_engineering give the same
\* value for each of the nine engineered features on every RawAttributeSet,
\* also when a satisfaction sub-score or another input is missing.
C13_SameEngineered ==
    BothComputed =>
        /\ unit.interactive.kind = "ok"
        /\ \A k \in EngineeredFeatures : unit.interactive[k] = unit.batch[k]

\* C14: compute_engineered returns a result and raises nothing, whatever
\* the values: numbers (negative and zero included), None, or strings that
\* are no numbers.
C14_NeverFails ==
    (unit.op = "features" /\ unit.interactive.kind # "none") =>
        unit.interactive.kind = "ok"

\* The RawAttributeSet of the end-to-end scenario
Scenario ==
    [satisfaction_employee_environnement |-> Num(2),
     satisfaction_employee_nature_travail |-> Num(2),
     satisfaction_employee_equipe |-> Num(2),
     satisfaction_employee_equilibre_pro_perso |-> Num(2),
     nombre_participation_pee |-> Num(0),
     annees_dans_l_entreprise |-> Num(6),
     heures_supplementaires |-> Num(1),
     revenu_mensuel |-> Num(5993),
     distance_domicile_travail |-> Num(1),
     age |-> Num(41),
     annees_depuis_la_derniere_promotion |-> Num(0),
     nombre_experiences_precedentes |-> Num(8),
     annee_experience_totale |-> Num(8)]

AllNumeric(v) == \A k \in RawFields : v[k].t = "num"

\* Every division of the formulas has a value
FormulasDefined(v) ==
    /\ Add(Add(v.nombre_participation_pee, v.annees_dans_l_entreprise), Num(1)) # Num(0)
    /\ Add(v.revenu_mensuel, Num(1)) # Num(0)
    /\ Add(v.distance_domicile_travail, Num(10)) # Num(0)
    /\ Add(v.annees_dans_l_entreprise, Num(1)) # Num(0)
    /\ Add(v.annee_experience_totale, Num(1)) # Num(0)

\* The formulas of the nine engineered features, over the rationals
Formulas(v) ==
    LET sat   == Div(Add(Add(v.satisfaction_employee_environnement,
                             v.satisfaction_employee_nature_travail),
                         Add(v.satisfaction_employee_equipe,
                             v.satisfaction_employee_equilibre_pro_perso)),
                     Num(4))
        ratio == Div(v.heures_supplementaires, Add(v.revenu_mensuel, Num(1)))
        anc   == Div(Sub(v.annees_dans_l_entreprise,
                         v.annees_depuis_la_derniere_promotion),
                     Add(v.annees_dans_l_entreprise, Num(1)))
        d10   == Add(v.distance_domicile_travail, Num(10))
    IN  [satisfaction_moyenne |-> sat,
         nonlineaire_participation_pee |->
             Div(v.nombre_participation_pee,
                 Add(Add(v.nombre_participation_pee,
                         v.annees_dans_l_entreprise), Num(1))),
         ratio_heures_sup_salaire |-> ratio,
         nonlinaire_charge_contrainte |->
             Div(Mul(v.heures_supplementaires, v.distance_domicile_travail),
                 Mul(d10, d10)),
         nonlinaire_surmenage_insatisfaction |->
             Mul(v.heures_supplementaires, Sub(Num(1), sat)),
         jeune_surcharge |->
             IF Less(v.age, Num(30)) /\ v.heures_supplementaires = Num(1)
                THEN Num(1) ELSE Num(0),
         anciennete_sans_promotion |-> anc,
         mobilite_carriere |->
             Div(v.nombre_experiences_precedentes,
                 Add(v.annee_experience_totale, Num(1))),
         risque_global |-> Mul(Mul(ratio, anc), Sub(Num(1), sat))]

C16_ContractComplete ==
    /\ \A r \in clean :
          /\ r.lacks = {}
          /\ r.nulls \cap Range(feature_columns) = {}
    /\ unit.op = "fetch_row_to_X" => unit.out.kind \in {"none", "ok"}

\* C16, its case: a run whose frame had a row with NaN in a contract column
\* wrote its other rows, and a stored row was read and assembled.
C16_Witness ==
    /\ unit.op = "fetch_row_to_X"
    /\ unit.out.kind = "ok"
    /\ unit.run.failure = "none"
    /\ unit.run.written # {}
    /\ \E k \in 1..Len(unit.run.frame) : unit.run.frame[k].nan = {"genre"}

\* The number of rows of df with NaN in column c
NaNCount(df, c) == Cardinality({k \in 1..Len(df) : c \in df[k].nan})

\* More than 20% of the rows of df miss one of the critical fields
TooManyMissing(df) ==
    \E c \in {"employee_id", "age", "revenu_mensuel", "heures_supplementaires",
              "a_quitte_l_entreprise"} :
        5 * NaNCount(df, c) > Len(df)

\* The rows of df without NaN
CompleteRows(df) == {k \in 1..Len(df) : df[k].nan = {}}

\* C17: a run on a frame missing a critical field in more than 20% of its
\* rows fails in validate_quality and leaves the table as it was, no
\* truncate and no insert; at 20% or less the run proceeds: it truncates
\* if asked to and inserts the complete rows.
C17_QualityGate ==
    [][unit'.op = "main" =>
          IF TooManyMissing(unit'.frame)
             THEN /\ unit'.failure = "validate_quality"
                  /\ clean' = clean
                  /\ clean_seq' = clean_seq
             ELSE /\ unit'.failure = "none"
                  /\ Cardinality(clean') =
                        (IF unit'.refresh THEN 0 ELSE Cardinality(clean))
                           + Cardinality(CompleteRows(unit'.frame))]_vars

\* C17, its case: a run with --refresh on a frame of five rows, two of them
\* without age, failed and left the rows of an earlier run in place.
C17_Witness ==
    /\ unit.op = "main"
    /\ unit.refresh
    /\ unit.failure = "validate_quality"
    /\ Len(unit.frame) = 5
    /\ NaNCount(unit.frame, "age") = 2
    /\ clean # {}

\* The failures that are neither a validation failure nor not-found:
\* the storage unavailable at the read, the classifier raising, the flush
\* or the commit failing
UnexpectedFailures == {"storage", "classifier", "flush", "commit"}

\* C18: on both handlers a failure that is neither a validation failure nor
\* not-found is answered with a 5xx status and leaves no audit row; on
\* predict_by_employee_id the status is 500.
C18_UnexpectedIs5xx ==
    \A c \in Calls :
        (calls[c].pc = "done" /\ calls[c].failure \in UnexpectedFailures) =>
            /\ calls[c].status >= 500
            /\ calls[c].mode = "by_employee_id" => calls[c].status = 500
            /\ \A r \in prediction_requests : r.call # c
            /\ \A q \in predictions : q.call # c

\* C19: no step of a handler, and so no service operation it calls, changes
\* the loaded model, the threshold or feature_columns, however the calls
\* interleave.
C19_ServiceImmutable ==
    [][/\ model' = model
       /\ threshold' = threshold
       /\ feature_columns' = feature_columns]_vars

\* Two calls have interleaved: one has answered 200 while the other is
\* between its flush and its commit.
C19_Witness ==
    \E c, d \in Calls :
        /\ c # d
        /\ calls[c].pc = "done" /\ calls[c].status = 200
        /\ calls[d].pc = "flushed" /\ calls[d].invoked
        /\ model = joblib_load(MODEL_FILE)

\* C20: TechNovaService is constructed once per run of the lifespan, at its
\* startup; a request that arrives while the application serves is handed
\* the instance that startup constructed, the same for every request of
\* that run; a request that arrives before startup or after shutdown, when
\* service_singleton is None, fails get_service's assertion and never
\* reaches the handler.
C20_Singleton ==
    /\ unit.instances = unit.lifetime
    /\ (unit.service_singleton = NoService) <=> (unit.phase # "serving")
    /\ unit.phase = "serving" => unit.service_singleton = unit.lifetime
    /\ \A c \in Calls :
          unit.handed[c] # NotHanded =>
             IF unit.handed[c].phase = "serving"
                THEN /\ unit.handed[c].out.kind = "ok"
                     /\ unit.handed[c].out.service = unit.handed[c].lifetime
                ELSE /\ unit.handed[c].out.kind = "raise"
                     /\ unit.handed[c].out.exc = "AssertionError"
                     /\ calls[c].pc = "done"
                     /\ ~calls[c].invoked
    /\ \A c, d \in Calls :
          (/\ unit.handed[c] # NotHanded /\ unit.handed[d] # NotHanded
           /\ unit.handed[c].out.kind = "ok" /\ unit.handed[d].out.kind = "ok"
           /\ unit.handed[c].lifetime = unit.handed[d].lifetime)
             => unit.handed[c].out.service = unit.handed[d].out.service
    /\ \A c \in Calls :
          calls[c].invoked =>
             /\ unit.handed[c] # NotHanded
             /\ unit.handed[c].out.kind = "ok"
             /\ unit.handed[c].lifetime >= 1

\* A request before startup has failed the assertion, a request of the
\* first run has been served on its instance and answered 200, and the
\* application has shut down.
C20_Witness ==
    \E c, d \in Calls :
        /\ unit.handed[c] # NotHanded /\ unit.handed[d] # NotHanded
        /\ unit.handed[c].phase = "before"
        /\ unit.handed[c].out.kind = "raise"
        /\ unit.handed[d].phase = "serving"
        /\ unit.handed[d].out.service = 1
        /\ calls[d].pc = "done" /\ calls[d].status = 200
        /\ unit.phase = "after"

\* C21: on every route but '/', the request reaches the handler only if its
\* X-API-Key header equals the server's non-empty API_KEY; a missing or
\* different header is answered 401, an unset or empty API_KEY is answered
\* 500 whatever the header; a refused request computes no prediction and
\* writes no audit row.
C21_ApiKey ==
    \A c \in Calls :
        (unit.checked[c] # NotChecked /\ unit.checked[c].route.path # "/") =>
            LET k == unit.API_KEY
                h == unit.checked[c].x_api_key
                passed == unit.checked[c].out.kind = "ok"
            IN  /\ passed <=> (k.set /\ k.value # "" /\ h = k)
                /\ (~k.set \/ k.value = "") =>
                      calls[c].pc = "done" /\ calls[c].status = 500
                /\ (k.set /\ k.value # "" /\ h # k) =>
                      calls[c].pc = "done" /\ calls[c].status = 401
                /\ ~passed =>
                      /\ calls[c].mode = "none"
                      /\ ~calls[c].invoked
                      /\ \A r \in prediction_requests : r.call # c
                      /\ \A q \in predictions : q.call # c

\* One request was refused for a wrong key while another, carrying the
\* server's key, was predicted and audited.
C21_Witness ==
    \E c, d \in Calls :
        /\ unit.checked[c] # NotChecked /\ unit.checked[d] # NotChecked
        /\ unit.checked[c].route.path = "/predict/by-features"
        /\ unit.checked[c].x_api_key = Key("k2")
        /\ calls[c].status = 401
        /\ unit.checked[d].route.path = "/predict/by-features"
        /\ calls[d].pc = "done" /\ calls[d].status = 200
        /\ \E q \in predictions : q.call = d

\* C22: a session get_db opened is eventually closed and stays closed
\* exactly once, however the request ended; no session is closed twice.
C22_ClosedOnce ==
    /\ [](\A g \in Generators : unit.gens[g].closes <= 1)
    /\ \A g \in Generators :
          [](unit.gens[g].opened => <>[](unit.gens[g].closes = 1))

\* Three sessions were opened and ended in the three ways (the endpoint
\* returned, the endpoint raised, the generator was closed), each closed
\* once.
C22_Witness ==
    /\ \A how \in Ends :
          \E g \in Generators :
              /\ unit.gens[g].opened
              /\ unit.gens[g].how = how
              /\ unit.gens[g].closes = 1

\* The processes terminate() was called on, in call order
TerminatedProcs == [k \in 1..Len(unit.terminated) |-> unit.terminated[k].proc]

\* main has left the loop by one of its two breaks
LeftLoop == unit.pc \in {"break", "returned"} /\ unit.interrupts = <<>>

\* C23: in a run without KeyboardInterrupt, main starts two children, the
\* API then the dashboard; once the API is observed exited it has
\* terminated the dashboard and not the API; once the dashboard is observed
\* exited with the API running it has terminated the API; it leaves the loop
\* only then, and while both are seen running it terminates nothing and
\* polls again.
C23_Supervisor ==
    unit.interrupts = <<>> =>
        /\ unit.pc \notin {"run_api", "run_dashboard"} =>
              unit.popen = <<"api", "dashboard">>
        /\ unit.pc = "run_dashboard" => unit.popen = <<"api">>
        /\ (LeftLoop /\ unit.api_code # "None") =>
              TerminatedProcs = <<"dashboard">>
        /\ (LeftLoop /\ unit.api_code = "None") =>
              /\ unit.dash_code # "None"
              /\ TerminatedProcs = <<"api">>
        /\ unit.pc \in {"sleep", "poll_api", "poll_dashboard", "branch"} =>
              unit.terminated = <<>>
        /\ unit.pc = "sleep" =>
              unit.api_code = "None" /\ unit.dash_code = "None"

\* main polled with both children running, then saw the API exited, stopped
\* the dashboard and returned.
C23_Witness ==
    /\ unit.pc = "returned"
    /\ unit.interrupts = <<>>
    /\ unit.polls = 2
    /\ unit.api_code # "None" /\ unit.dash_code = "None"
    /\ TerminatedProcs = <<"dashboard">>

\* One KeyboardInterrupt arrived, inside the polling loop, while both
\* children were running
InterruptedWhileRunning ==
    /\ Len(unit.interrupts) = 1
    /\ unit.interrupts[1].pc \in TryBlock
    /\ unit.interrupts[1].api = "running"
    /\ unit.interrupts[1].dashboard = "running"

\* C24: after a KeyboardInterrupt in the polling loop with both children
\* running, main does not propagate it, and once it has returned it has
\* called terminate once on the API and once on the dashboard.
C24_InterruptStopsBoth ==
    InterruptedWhileRunning =>
        /\ unit.pc \in {"except_api", "except_dashboard", "returned"}
        /\ unit.pc = "returned" =>
              /\ Cardinality({k \in 1..Len(unit.terminated) :
                                 unit.terminated[k].proc = "api"}) = 1
              /\ Cardinality({k \in 1..Len(unit.terminated) :
                                 unit.terminated[k].proc = "dashboard"}) = 1

\* The interrupt arrived during the sleep of the second iteration and main
\* has returned.
C24_Witness ==
    /\ InterruptedWhileRunning
    /\ unit.interrupts[1].pc = "sleep"
    /\ unit.polls = 2
    /\ unit.pc = "returned"
    /\ TerminatedProcs = <<"api", "dashboard">>

\* Both children were found exited by the polls of one iteration, and the
\* branch has run
BothFoundExited ==
    /\ unit.api_code # "None" /\ unit.dash_code # "None"
    /\ unit.pc \notin {"poll_dashboard", "branch"}

\* main stops polling at the first poll that reports an exit: it sleeps
\* and polls again only while it has seen both children running
ReturnsAtFirstExit ==
    /\ unit.pc \in {"sleep", "poll_api"} =>
          unit.api_code = "None" /\ unit.dash_code = "None"
    /\ unit.pc = "poll_dashboard" => unit.dash_code = "None"

\* C29, for every run: when both children are found exited in one poll
\* only dashboard.terminate() is called; terminate is never called on a
\* process main has observed exited; main stops polling at the first
\* reported exit.
C29_OnlyUnobserved ==
    /\ BothFoundExited => TerminatedProcs = <<"dashboard">>
    /\ \A k \in 1..Len(unit.terminated) : ~unit.terminated[k].observed
    /\ ReturnsAtFirstExit

\* C29, with the calls on an observed-exited process named: when both
\* children are found exited in one poll and no KeyboardInterrupt arrives,
\* only dashboard.terminate() is called, on a dashboard main has observed
\* exited; the loop never calls terminate on an API it has observed exited;
\* the KeyboardInterrupt handler calls terminate on both children whatever
\* main has observed; main stops polling at the first reported exit.
C29_LoopOnlyUnobserved ==
    /\ (BothFoundExited /\ unit.interrupts = <<>>) =>
          unit.terminated = <<[proc |-> "dashboard", site |-> "loop",
                               observed |-> TRUE]>>
    /\ \A k \in 1..Len(unit.terminated) :
          (unit.terminated[k].site = "loop" /\ unit.terminated[k].observed) =>
             /\ unit.terminated[k].proc = "dashboard"
             /\ unit.api_code # "None"
    /\ \A k \in 1..Len(unit.terminated) :
          (unit.terminated[k].site = "except" /\ unit.terminated[k].observed) =>
             Observed(unit.interrupts[1], unit.terminated[k].proc)
    /\ (unit.pc = "returned" /\ unit.interrupts # <<>>) =>
          \E k \in 1..Len(unit.terminated) :
             /\ unit.terminated[k].site = "except"
             /\ unit.terminated[k].proc = "api"
    /\ ReturnsAtFirstExit

\* Both children exited before the first poll; main terminated the
\* dashboard only and returned.
C29_Witness ==
    /\ BothFoundExited
    /\ unit.pc = "returned"
    /\ unit.interrupts = <<>>
    /\ unit.polls = 1
    /\ unit.terminated = <<[proc |-> "dashboard", site |-> "loop",
                            observed |-> TRUE]>>

\* C25: in every committed prediction record the class is 1 exactly when
\* the stored probability is at least the stored threshold, the stored
\* threshold is the service's, and the version is MODEL_VERSION.
C25_AuditConsistent ==
    \A q \in predictions :
        /\ q.predicted_class \in {0, 1}
        /\ (q.predicted_class = 1) <=> (q.predicted_proba >= q.threshold_used)
        /\ q.threshold_used = threshold
        /\ q.model_version = MODEL_VERSION

\* Two records are committed: one on the boundary (probability equal to
\* the threshold, class 1), one below it (class 0).
C25_Witness ==
    \E q, r \in predictions :
        /\ q.predicted_proba = q.threshold_used /\ q.predicted_class = 1
        /\ r.predicted_proba < r.threshold_used /\ r.predicted_class = 0

\* C26: a payload that lacks a contract feature and also carries a key
\* outside the contract makes adapt_input fail with 'Missing features',
\* naming no extra key; 'Unexpected features' is raised only when no
\* contract feature is missing.
C26_MissingBeforeUnexpected ==
    unit.op = "adapt_input" =>
        /\ (Absent(feature_columns, unit.arg) # {}
               /\ Beyond(feature_columns, unit.arg) # {}) =>
              /\ unit.out.kind = "raise"
              /\ unit.out.msg = "Missing features"
              /\ Range(unit.out.names) \cap Beyond(feature_columns, unit.arg) = {}
        /\ (unit.out.kind = "raise" /\ unit.out.msg = "Unexpected features") =>
              Absent(feature_columns, unit.arg) = {}

\* With the contract [age, revenu_mensuel], the payload {age, foo} failed
\* with 'Missing features' naming revenu_mensuel.
C26_Witness ==
    /\ unit.op = "adapt_input"
    /\ feature_columns = <<"age", "revenu_mensuel">>
    /\ Range(Columns(unit.arg)) = {"age", "foo"}
    /\ unit.out.kind = "raise"
    /\ unit.out.msg = "Missing features"
    /\ unit.out.names = <<"revenu_mensuel">>

\* C27: the fields of ModelRequest are the names of feature_columns, so on
\* predict_by_features no call fails in adapt_input: no answer carries
\* 'Missing features' or 'Unexpected features', and a 422 comes from
\* another ValueError.
C27_SchemaMatchesContract ==
    /\ Range(ModelRequestFields) = Range(feature_columns)
    /\ Len(ModelRequestFields) = Len(feature_columns)
    /\ \A c \in Calls :
          (calls[c].mode = "by_features" /\ calls[c].pc = "done") =>
             /\ calls[c].failure # "payload_validation"
             /\ calls[c].res.kind = "raise" =>
                   calls[c].res.msg \notin {"Missing features",
                                            "Unexpected features"}
             /\ calls[c].status = 422 => calls[c].invoked

\* One schema-valid request was predicted on its 32 features and answered
\* 200; another was answered 422 for a ValueError of the classifier.
C27_Witness ==
    \E c, d \in Calls :
        /\ calls[c].mode = "by_features" /\ calls[c].pc = "done"
        /\ calls[c].status = 200 /\ calls[c].width = 32
        /\ calls[d].mode = "by_features" /\ calls[d].pc = "done"
        /\ calls[d].status = 422 /\ calls[d].failure = "classifier"

\* C28: between the truncate's transaction and the insert's, and after an
\* insert that failed, the table is empty, and a predict_by_employee_id
\* call that reads then is given no row: it neither reaches the classifier
\* nor answers 200, and when its read succeeds it fails with not-found
\* (404), whichever employee it asks for.
C28_RefreshWindow ==
    [][/\ unit'.pc \in {"truncated", "failed"} => clean' = {}
       /\ \A c \in Calls :
             (/\ unit.pc \in {"truncated", "failed"}
              /\ calls[c].pc = "idle"
              /\ calls'[c].pc # "idle") =>
                 /\ calls'[c].pc = "done"
                 /\ ~calls'[c].invoked
                 /\ calls'[c].failure \in {"not_found", "storage"}
                 /\ calls'[c].failure = "not_found" => calls'[c].status = 404
      ]_vars

\* An employee was predicted from its row (200); a later call for the same
\* employee failed with not-found; the refresh has since inserted a row for
\* that employee.
C28_Witness ==
    /\ unit.pc = "idle"
    /\ calls[1].pc = "done" /\ calls[1].status = 200
    /\ calls[2].pc = "done" /\ calls[2].status = 404
    /\ calls[2].failure = "not_found"
    /\ calls[1].employee_id = calls[2].employee_id
    /\ \E r \in clean : r.employee_id = calls[2].employee_id

\* The request of call c was sent by the dashboard
FromDashboard(c) ==
    /\ unit.checked[c] # NotChecked
    /\ "button" \in DOMAIN unit.checked[c]

\* C30: every request of the dashboard resolves to a route the API
\* registers; the by-ID button reaches predict_by_employee_id's route and
\* the features button reaches predict_by_features' route.
C30_DashboardRoutes ==
    \A c \in Calls :
        FromDashboard(c) =>
            /\ calls[c].failure # "routing"
            /\ unit.checked[c].route \in Routes
            /\ unit.checked[c].button = "Lancer la prediction (ID)" =>
                  unit.checked[c].route.path = "/predict/by-id/{employee_id}"
            /\ unit.checked[c].button = "Lancer la prediction (features)" =>
                  unit.checked[c].route.path = "/predict/by-features"

====
